---------------------------- MODULE Spec2Model ----------------------------
(***************************************************************************)
(* A model of the AI prompt gateway's response cache                       *)
(* (backend/app/cache.py) and of the request pipeline that uses it         *)
(* (backend/app/main.py, route_prompt).                                    *)
(*                                                                         *)
(* Strings are sequences of one-character strings.  Time is the value of   *)
(* time.monotonic() in whole ticks.  The OrderedDict _store is a sequence  *)
(* of entries whose first element is the least recently used one.          *)
(***************************************************************************)
EXTENDS Integers, Sequences, FiniteSets, TLC

\* ------------------------------------------------------------------ bounds
\* Largest capacity (max_size) a cache is constructed with.
MaxCapacity == 2
\* The time-to-live, in ticks, the cache is constructed with.
TtlTicks == 1
\* The monotonic clock runs from 0 to MaxTime ticks.
MaxTime == 2
\* Lookups counted (hits + misses) before the model stops issuing gets.
MaxLookups == 2
\* Longest free prefix of a request text drawn for the fingerprint check.
MaxLen == 2
\* Lookups counted before the model of the statistics stops issuing gets.
MaxCount == 3

\* ------------------------------------------------------------ enumerations
\* ClassifierMode, by member name.
ClassifierMode == {"RULE_BASED", "LLM_BASED"}

\* ClassifierMode.value, as a string of characters.
ModeValue(mode) ==
    IF mode = "RULE_BASED"
        THEN <<"r", "u", "l", "e", "_", "b", "a", "s", "e", "d">>
        ELSE <<"l", "l", "m", "_", "b", "a", "s", "e", "d">>

\* Optional values: None is the empty sequence, a present value v is <<v>>.
None == <<>>

Some(v) == <<v>>

\* ------------------------------------------------------------------ strings
\* Characters str.strip() removes.
Whitespace == {" "}

\* The upper-case letters of the model's alphabet, with their lower case.
UpperCase == [A |-> "a", C |-> "c", D |-> "d", E |-> "e", O |-> "o"]

\* str.lower() on one character of the model's alphabet.
LowerChar(c) == IF c \in DOMAIN UpperCase THEN UpperCase[c] ELSE c

\* str.lower()
lower(s) == [i \in 1..Len(s) |-> LowerChar(s[i])]

RECURSIVE lstrip(_)
\* Removal of leading whitespace (the left half of str.strip()).
lstrip(s) ==
    IF s # <<>> /\ Head(s) \in Whitespace THEN lstrip(Tail(s)) ELSE s

RECURSIVE rstrip(_)
\* Removal of trailing whitespace (the right half of str.strip()).
rstrip(s) ==
    IF s # <<>> /\ s[Len(s)] \in Whitespace
        THEN rstrip(SubSeq(s, 1, Len(s) - 1))
        ELSE s

\* str.strip()
strip(s) == rstrip(lstrip(s))

\* The separator of the f-string in _make_key.
Separator == <<":", ":">>

\* A mutant of RawKey: the text is not lowercased.
RawKeyNoLower(prompt, mode) == strip(prompt) \o Separator \o ModeValue(mode)

\* raw = f"{prompt.strip().lower()}::{classifier_mode.value}"
RawKey(prompt, mode) == lower(strip(prompt)) \o Separator \o ModeValue(mode)

\* hashlib.sha256(raw.encode()).hexdigest(): a digest that is a function of
\* raw alone; collisions are taken not to occur, so the digest names raw.
Sha256(raw) == <<"sha256", raw>>

\* ResponseCache._make_key
make_key(prompt, mode) == Sha256(RawKey(prompt, mode))

\* ------------------------------------------------------------ cache inputs
\* The (request text, classifier mode) pairs the cache is called with: "a"
\* and " A" (one text after normalization) and "b" under the rule-based
\* mode, and "a" under the LLM-based mode: three keys in all.
Inputs ==
    {<<<<"a">>, "RULE_BASED">>, <<<<" ", "A">>, "RULE_BASED">>,
     <<<<"b">>, "RULE_BASED">>, <<<<"a">>, "LLM_BASED">>}

\* Values stored by direct callers of put.
Values == {"v1", "v2"}

\* key = self._make_key(prompt, classifier_mode), tabulated over the inputs.
KeyOf == [i \in Inputs |-> make_key(i[1], i[2])]

\* Every key the inputs can produce.
Keys == {KeyOf[i] : i \in Inputs}

VARIABLES
    \* ResponseCache
    max_size,     \* self._max_size
    ttl,          \* self._ttl
    store,        \* self._store, least recently used entry first
    hits,         \* self._hits
    misses,       \* self._misses
    \* environment
    now,          \* time.monotonic()
    \* observation of the calls made
    lastOp,       \* the last call: its name, key, return value, victims,
                  \* and the keys that were older than the TTL when it ran
    useOrder,     \* stored keys by last successful get or put, oldest first
    putTime,      \* per stored key, the time of the put that made its entry
    scen,         \* progress through put(A), put(B), get(A), put(C)
    gets,         \* the get calls returned since construction or clear
    \* two calls of _make_key side by side
    fp,           \* their arguments and the raw strings they hash
    \* two calls of a function of the router or of a classifier side by side
    fn,           \* their arguments and what they returned or raised
    \* the RouteResponse objects callers hold and the cache refers to
    heap,         \* per object, the value of its fields
    asPut,        \* per key, the fields of its object when it was put
    got,          \* the last hit: the fields returned and the fields put
    \* threads calling one ResponseCache, statement by statement
    lock,         \* self._lock: the thread holding it, or Free
    pc,           \* per thread, the statement it executes next
    loc,          \* per thread, the call's arguments and local variables
    \* route_prompt, one request per worker at a time
    ppc,          \* per worker, the statement of route_prompt it is at
    req,          \* per worker, the request and route_prompt's local variables
    logged        \* the number of entries of _logger

vars ==
    <<max_size, ttl, store, hits, misses, now, lastOp, useOrder, putTime,
      scen, gets, fp, fn, heap, asPut, got, lock, pc, loc, ppc, req, logged>>

\* The variables of ResponseCache, its clock and the observation of its calls.
cacheVars ==
    <<max_size, ttl, store, hits, misses, now, lastOp, useOrder, putTime, scen,
      gets>>

\* What the cache's own operations leave alone.
besideCache ==
    <<fp, fn, heap, asPut, got, lock, pc, loc, ppc, req, logged>>

\* -------------------------------------------------------------- _CacheEntry
\* _CacheEntry.__init__: the value and the creation timestamp.
CacheEntry(key, value, t) == [key |-> key, value |-> value, created_at |-> t]

\* A mutant of is_expired: an entry whose age equals the TTL is expired.
is_expired_at_ttl(entry, ttlv, t) == (t - entry.created_at) >= ttlv

\* A mutant of is_expired: the age is computed the wrong way round.
is_expired_reversed(entry, ttlv, t) == (entry.created_at - t) > ttlv

\* _CacheEntry.is_expired
is_expired(entry, ttlv, t) == (t - entry.created_at) > ttlv

\* ------------------------------------------------------------- OrderedDict
\* The keys of a store, as a set.
KeysOf(s) == {s[i].key : i \in 1..Len(s)}

\* key in self._store
Contains(s, key) == key \in KeysOf(s)

\* The position of key in s (0 when absent).
IndexOf(s, key) ==
    IF Contains(s, key) THEN CHOOSE i \in 1..Len(s) : s[i].key = key ELSE 0

\* self._store.get(key)
Lookup(s, key) == IF Contains(s, key) THEN Some(s[IndexOf(s, key)]) ELSE None

\* del self._store[key]
Delete(s, key) ==
    LET i == IndexOf(s, key)
    IN  SubSeq(s, 1, i - 1) \o SubSeq(s, i + 1, Len(s))

\* A mutant of move_to_end: the entry keeps its position.
move_to_end_noop(s, key) == s

\* self._store.move_to_end(key)
move_to_end(s, key) == Append(Delete(s, key), s[IndexOf(s, key)])

\* A mutant of popitem: the entry after the least recently used one is
\* removed when there is one.
popitem_second(s) ==
    IF Len(s) >= 2 THEN <<s[1]>> \o SubSeq(s, 3, Len(s)) ELSE Tail(s)

\* A mutant of popitem: the most recently used entry is removed.
popitem_last(s) == SubSeq(s, 1, Len(s) - 1)

\* self._store.popitem(last=False)
popitem(s) == Tail(s)

RECURSIVE evict_above(_, _)
\* A mutant of evict: entries are evicted only above the capacity.
evict_above(s, cap) == IF Len(s) > cap THEN evict_above(popitem(s), cap) ELSE s

RECURSIVE evict(_, _)
\* while len(self._store) >= self._max_size: self._store.popitem(last=False)
evict(s, cap) == IF Len(s) >= cap THEN evict(popitem(s), cap) ELSE s

\* ------------------------------------------------------------ ResponseCache
\* A mutant of put_store: a stored key is not removed first, so the cache
\* makes room as for a new key and the assignment keeps the key's position.
put_store_in_place(s, cap, key, value, t) ==
    LET s2 == evict(s, cap)
    IN  IF Contains(s2, key)
            THEN [i \in 1..Len(s2) |->
                    IF s2[i].key = key THEN CacheEntry(key, value, t)
                    ELSE s2[i]]
            ELSE Append(s2, CacheEntry(key, value, t))

\* A mutant of put_store: a stored key keeps its entry.
put_store_keep(s, cap, key, value, t) ==
    IF Contains(s, key)
        THEN s
        ELSE Append(evict(s, cap), CacheEntry(key, value, t))

\* The store after put's three steps under the lock.
put_store(s, cap, key, value, t) ==
    LET s1 == IF Contains(s, key) THEN Delete(s, key) ELSE s
        s2 == evict(s1, cap)
    IN  Append(s2, CacheEntry(key, value, t))

\* A mutant of get_result: a lookup that finds an entry older than the TTL
\* removes it and counts nothing.
get_result_expired_uncounted(s, h, m, ttlv, key, t) ==
    LET entry == Lookup(s, key)
    IN  IF entry = None
            THEN [store |-> s, hits |-> h, misses |-> m + 1, ret |-> None]
        ELSE IF is_expired(entry[1], ttlv, t)
            THEN [store |-> Delete(s, key), hits |-> h, misses |-> m,
                  ret |-> None]
        ELSE [store |-> move_to_end(s, key), hits |-> h + 1, misses |-> m,
              ret |-> Some(entry[1].value)]

\* A mutant of get_result: a lookup of a key that is not stored makes room
\* by dropping the least recently used entry.
get_result_making_room(s, h, m, ttlv, key, t) ==
    LET entry == Lookup(s, key)
    IN  IF entry = None
            THEN [store |-> IF s = <<>> THEN s ELSE popitem(s), hits |-> h,
                  misses |-> m + 1, ret |-> None]
        ELSE IF is_expired(entry[1], ttlv, t)
            THEN [store |-> Delete(s, key), hits |-> h, misses |-> m + 1,
                  ret |-> None]
        ELSE [store |-> move_to_end(s, key), hits |-> h + 1, misses |-> m,
              ret |-> Some(entry[1].value)]

\* The result of get under the lock: the store, the counters, the return.
get_result(s, h, m, ttlv, key, t) ==
    LET entry == Lookup(s, key)
    IN  IF entry = None
            THEN [store |-> s, hits |-> h, misses |-> m + 1, ret |-> None]
        ELSE IF is_expired(entry[1], ttlv, t)
            THEN [store |-> Delete(s, key), hits |-> h, misses |-> m + 1,
                  ret |-> None]
        ELSE [store |-> move_to_end(s, key), hits |-> h + 1, misses |-> m,
              ret |-> Some(entry[1].value)]

\* ---------------------------------------------------------- observations
\* The observation before any call.
NoOp ==
    [op |-> "init", key |-> None, arg |-> None, ret |-> None, victims |-> {},
     stale |-> {}]

\* The put time of a key that is not stored.
NoTime == 0 - 1

\* The stored keys whose entry is older than the TTL now, by the time of the
\* put that created or replaced it.
StaleKeys == {k \in KeysOf(store) : now - putTime[k] > ttl}

\* k moved to the end of order, the result restricted to the stored keys.
Touch(order, k, stored) ==
    LET o == SelectSeq(order, LAMBDA x : x # k /\ x \in stored)
    IN  IF k \in stored THEN Append(o, k) ELSE o

\* order restricted to the stored keys.
Restrict(order, stored) == SelectSeq(order, LAMBDA x : x \in stored)

\* The keys of the scenario put(A), put(B), get(A), put(C).
ScenA == make_key(<<"a">>, "RULE_BASED")
ScenB == make_key(<<"b">>, "RULE_BASED")
ScenC == make_key(<<"a">>, "LLM_BASED")

\* The scenario's progress after a call op on key that returned ret, made
\* when the store was s.
ScenStep(n, op, key, ret, s) ==
    IF op = "put" /\ key = ScenA /\ s = <<>> THEN 1
    ELSE IF n = 1 /\ op = "put" /\ key = ScenB THEN 2
    ELSE IF n = 2 /\ op = "get" /\ key = ScenA /\ ret # None THEN 3
    ELSE IF n = 3 /\ op = "put" /\ key = ScenC THEN 4
    ELSE 0

\* ----------------------------------------------------------------- actions
\* ResponseCache.get(prompt, classifier_mode), as one step, with the
\* observation of the call.
cache_get(prompt, mode) ==
    LET key == KeyOf[<<prompt, mode>>]
        r == get_result(store, hits, misses, ttl, key, now)
    IN  /\ store' = r.store
        /\ hits' = r.hits
        /\ misses' = r.misses
        /\ lastOp' = [op |-> "get", key |-> key, arg |-> None, ret |-> r.ret,
                      victims |-> KeysOf(store) \ KeysOf(r.store),
                      stale |-> StaleKeys]
        /\ useOrder' = IF r.ret # None
                         THEN Touch(useOrder, key, KeysOf(r.store))
                         ELSE Restrict(useOrder, KeysOf(r.store))
        /\ putTime' = [k \in Keys |->
                         IF k \in KeysOf(r.store) THEN putTime[k] ELSE NoTime]
        /\ scen' = ScenStep(scen, "get", key, r.ret, store)
        /\ gets' = gets + 1
        /\ UNCHANGED <<max_size, ttl, now>>

\* A direct call of ResponseCache.get
Get(prompt, mode) ==
    /\ hits + misses < MaxLookups
    /\ cache_get(prompt, mode)
    /\ UNCHANGED besideCache

\* ResponseCache.put(prompt, classifier_mode, response), as one step, with
\* the observation of the call.
cache_put(prompt, mode, response) ==
    LET key == KeyOf[<<prompt, mode>>]
        s == put_store(store, max_size, key, response, now)
    IN  /\ store' = s
        /\ lastOp' = [op |-> "put", key |-> key, arg |-> Some(response),
                      ret |-> None,
                      victims |-> KeysOf(store) \ KeysOf(s),
                      stale |-> StaleKeys]
        /\ useOrder' = Touch(useOrder, key, KeysOf(s))
        /\ putTime' = [k \in Keys |->
                         IF k = key THEN now
                         ELSE IF k \in KeysOf(s) THEN putTime[k] ELSE NoTime]
        /\ scen' = ScenStep(scen, "put", key, None, store)
        /\ gets' = gets
        /\ UNCHANGED <<max_size, ttl, hits, misses, now>>

\* A direct call of ResponseCache.put
Put(prompt, mode, response) ==
    /\ cache_put(prompt, mode, response)
    /\ UNCHANGED besideCache

\* ResponseCache.clear()
Clear ==
    /\ store' = <<>>
    /\ hits' = 0
    /\ misses' = 0
    /\ lastOp' = [op |-> "clear", key |-> None, arg |-> None, ret |-> None,
                  victims |-> KeysOf(store), stale |-> StaleKeys]
    /\ useOrder' = <<>>
    /\ putTime' = [k \in Keys |-> NoTime]
    /\ scen' = 0
    /\ gets' = 0
    /\ UNCHANGED <<max_size, ttl, now, besideCache>>

\* Python's rounding of num / den (num >= 0, den > 0) to an integer: the
\* nearest one, a tie going to the even one.
round_half_even(num, den) ==
    LET q == num \div den
        r == num % den
    IN  IF 2 * r < den THEN q
        ELSE IF 2 * r > den THEN q + 1
        ELSE IF q % 2 = 0 THEN q ELSE q + 1

\* round(num / den, 2), as the number of hundredths.
round2(num, den) == round_half_even(num * 100, den)

\* A mutant of hit_rate_percent: the share of the misses.
miss_rate_percent(h, m) == IF h + m > 0 THEN round2(m * 100, h + m) ELSE 0

\* Lines 168-169 and 176: round((hits / total * 100) if total > 0 else 0.0, 2),
\* in hundredths of a percent.
hit_rate_percent(h, m) == IF h + m > 0 THEN round2(h * 100, h + m) ELSE 0

\* ResponseCache.stats(): the dictionary returned (hit_rate_percent in
\* hundredths of a percent).
stats_result(s, cap, ttlv, h, m) ==
    [size |-> Len(s), max_size |-> cap, ttl_seconds |-> ttlv,
     hits |-> h, misses |-> m, hit_rate_percent |-> hit_rate_percent(h, m)]

\* ResponseCache.stats()
Stats ==
    /\ lastOp' = [op |-> "stats", key |-> None, arg |-> None,
                  ret |-> Some(stats_result(store, max_size, ttl, hits, misses)),
                  victims |-> {}, stale |-> StaleKeys]
    /\ UNCHANGED <<max_size, ttl, store, hits, misses, now,
                   useOrder, putTime, scen, gets, besideCache>>

\* time.monotonic() advances between calls.
Tick ==
    /\ now < MaxTime
    /\ now' = now + 1
    /\ UNCHANGED <<max_size, ttl, store, hits, misses, lastOp, useOrder,
                   putTime, scen, gets, besideCache>>

\* No call of _make_key is under observation.
NoFp == [text1 |-> <<>>, mode1 |-> "RULE_BASED", text2 |-> <<>>,
         mode2 |-> "RULE_BASED", raw1 |-> None, raw2 |-> None]

\* No call of a function of the router or of a classifier is under
\* observation.
NoFn == [name |-> "none", arg1 |-> None, arg2 |-> None,
         out1 |-> None, out2 |-> None]

\* The values a field of a RouteResponse takes: as the response was
\* assembled, and as a caller holding the object assigned it afterwards.
FieldValues == {"assembled", "assigned"}

\* Every RouteResponse as route_prompt assembled it; nothing put or returned.
InitObjects ==
    /\ heap = [o \in Values |-> "assembled"]
    /\ asPut = [k \in Keys |-> None]
    /\ got = None

\* ResponseCache.__init__ with the given capacity.
InitCache(cap) ==
    /\ max_size = cap
    /\ ttl = TtlTicks
    /\ store = <<>>
    /\ hits = 0
    /\ misses = 0
    /\ now = 0
    /\ lastOp = NoOp
    /\ useOrder = <<>>
    /\ putTime = [k \in Keys |-> NoTime]
    /\ scen = 0
    /\ gets = 0

\* The threads that call the cache concurrently.
Threads == {"t1", "t2"}

\* self._lock when no thread holds it.
Free == "free"

\* The local variables of a thread that is in no call.
NoCall ==
    [op |-> "none", key |-> None, value |-> None, entry |-> None,
     ret |-> None, snap |-> None, readAt |-> 0]

\* No thread is in a call of the cache.
InitThreads ==
    /\ lock = Free
    /\ pc = [t \in Threads |-> "idle"]
    /\ loc = [t \in Threads |-> NoCall]

\* The workers that serve requests concurrently.
Workers == {"w1", "w2"}

\* route_prompt's local variables when the worker serves no request, and
\* the observation of the request: failure is how its failed call ended;
\* calls counts its calls of the classifier, the router, the Generator and
\* the cache's put; added and removed are the keys whose entries its own
\* steps have stored and removed (with whether the removed entry was still
\* within its TTL).
NoRequest ==
    [prompt |-> <<>>, mode |-> "RULE_BASED", cached |-> None,
     classification |-> None, routing |-> None, reply |-> None,
     response |-> None, result |-> None, failure |-> None,
     calls |-> [classify |-> 0, route |-> 0, generate |-> 0, put |-> 0],
     added |-> {}, removed |-> {}]

\* No worker serves a request.
InitWorkers ==
    /\ ppc = [w \in Workers |-> "idle"]
    /\ req = [w \in Workers |-> NoRequest]
    /\ logged = 0

\* ResponseCache.__init__, for every capacity within the bound.
Init ==
    /\ \E cap \in 1..MaxCapacity : InitCache(cap)
    /\ fp = NoFp
    /\ fn = NoFn
    /\ InitObjects
    /\ InitThreads
    /\ InitWorkers

Next ==
    \/ \E i \in Inputs : Get(i[1], i[2])
    \/ \E i \in Inputs, v \in Values : Put(i[1], i[2], v)
    \/ Clear
    \/ Stats
    \/ Tick

Spec == Init /\ [][Next]_vars

\* ------------------------------------------------- the cache's statistics
\* The (request text, classifier mode) pairs the statistics are driven with.
StatsInputs == {<<<<"a">>, "RULE_BASED">>, <<<<"b">>, "RULE_BASED">>}

\* ResponseCache.get(prompt, classifier_mode), for up to MaxCount lookups.
CountedGet(prompt, mode) ==
    /\ hits + misses < MaxCount
    /\ cache_get(prompt, mode)
    /\ UNCHANGED besideCache

NextStats ==
    \/ \E i \in StatsInputs : CountedGet(i[1], i[2])
    \/ \E i \in StatsInputs : Put(i[1], i[2], "v1")
    \/ Clear
    \/ Stats
    \/ Tick

SpecStats == Init /\ [][NextStats]_vars

\* ------------------------------------------- callers sharing cached objects
\* What the calls on shared objects leave alone.
besideObjects == <<fp, fn, lock, pc, loc, ppc, req, logged>>

\* The (request text, classifier mode) pair of the calls on shared objects:
\* one key, put and looked up again and again.
ObjectInputs == {<<<<"a">>, "RULE_BASED">>}

\* _CacheEntry.__init__: self.value = value binds the entry to the caller's
\* object itself; what the object holds at that moment is noted for the key.
PutObject(prompt, mode, response) ==
    /\ cache_put(prompt, mode, response)
    /\ asPut' = [asPut EXCEPT ![KeyOf[<<prompt, mode>>]] =
                                Some(heap[response])]
    /\ UNCHANGED <<heap, got, besideObjects>>

\* ResponseCache.get: return entry.value hands the caller the stored object
\* itself; the caller reads the object's fields as they are now.
GetObject(prompt, mode) ==
    /\ hits + misses < MaxLookups
    /\ cache_get(prompt, mode)
    /\ got' = LET key == KeyOf[<<prompt, mode>>]
                  ret == lastOp'.ret
              IN  IF ret = None THEN None
                  ELSE Some([key |-> key, object |-> ret[1],
                             returned |-> heap[ret[1]],
                             stored |-> asPut[key][1]])
    /\ UNCHANGED <<heap, asPut, besideObjects>>

\* A caller assigns a field of a RouteResponse it holds; RouteResponse is a
\* pydantic BaseModel that is not frozen, so the assignment succeeds.
AssignField(object, value) ==
    /\ heap[object] # value
    /\ heap' = [heap EXCEPT ![object] = value]
    /\ UNCHANGED <<cacheVars, asPut, got, besideObjects>>

NextObjects ==
    \/ \E i \in ObjectInputs : GetObject(i[1], i[2])
    \/ \E i \in ObjectInputs, v \in Values : PutObject(i[1], i[2], v)
    \/ \E o \in Values, x \in FieldValues : AssignField(o, x)
    \/ Tick

SpecObjects == Init /\ [][NextObjects]_vars

\* ------------------------------------------------- _make_key on two requests
\* The characters request texts are drawn from.
TextChars == {" ", "a", "A", ":"}

\* All strings over S of length at most n.
StringsUpTo(S, n) == UNION {[1..k -> S] : k \in 0..n}

\* Endings that make a text look like the tail of a raw key.
TextEndings ==
    {<<>>, Separator \o ModeValue("RULE_BASED"),
     Separator \o ModeValue("LLM_BASED")}

\* The request texts of the fingerprint check.
Texts == {p \o x : p \in StringsUpTo(TextChars, MaxLen), x \in TextEndings}

\* Two requests, no key made yet.
InitKey ==
    /\ InitCache(1)
    /\ fn = NoFn
    /\ InitObjects
    /\ InitThreads
    /\ InitWorkers
    /\ \E t1 \in Texts, t2 \in Texts, m1 \in ClassifierMode,
          m2 \in ClassifierMode :
          fp = [text1 |-> t1, mode1 |-> m1, text2 |-> t2, mode2 |-> m2,
                raw1 |-> None, raw2 |-> None]

\* _make_key on each of the two requests, up to the string that is hashed.
MakeKeys ==
    /\ fp.raw1 = None
    /\ fp' = [fp EXCEPT !.raw1 = Some(RawKey(fp.text1, fp.mode1)),
                        !.raw2 = Some(RawKey(fp.text2, fp.mode2))]
    /\ UNCHANGED <<cacheVars, fn, heap, asPut, got, lock, pc, loc, ppc, req,
                   logged>>

NextKey == MakeKeys

SpecKey == InitKey /\ [][NextKey]_vars

\* ------------------------------------- the cache's calls, statement by statement
\* The (request text, classifier mode) pairs the threads call the cache with.
LockInputs == {<<<<"a">>, "RULE_BASED">>, <<<<"b">>, "RULE_BASED">>}

\* A mutant of CanAcquire: the lock excludes nobody.
CanAcquireAlways(holder) == TRUE

\* threading.Lock.acquire returns only when no thread holds the lock.
CanAcquire(holder) == holder = Free

\* What the observation of whole calls and the two-request check keep.
besideThreads ==
    <<max_size, ttl, lastOp, useOrder, putTime, scen, gets, fp, fn, heap,
      asPut, got, ppc, req, logged>>

\* with self._lock: entered by thread t for the call op with the given
\* key and value; the state the call starts from is remembered.
Enter(t, op, key, value, first) ==
    /\ pc[t] = "idle"
    /\ CanAcquire(lock)
    /\ lock' = t
    /\ pc' = [pc EXCEPT ![t] = first]
    /\ loc' = [loc EXCEPT ![t] =
                 [NoCall EXCEPT !.op = op, !.key = key, !.value = value,
                    !.snap = Some([store |-> store, hits |-> hits,
                                   misses |-> misses]),
                    !.readAt = now]]
    /\ UNCHANGED <<store, hits, misses, now, besideThreads>>

\* Thread t goes from statement from to statement to, changing only its own
\* local variables.
Goto(t, from, to, newLoc) ==
    /\ pc[t] = from
    /\ pc' = [pc EXCEPT ![t] = to]
    /\ loc' = [loc EXCEPT ![t] = newLoc]
    /\ UNCHANGED <<lock, now, besideThreads>>

\* get, line 106: with self._lock
GetEnter(t, prompt, mode) ==
    /\ hits + misses < MaxLookups
    /\ Enter(t, "get", KeyOf[<<prompt, mode>>], None, "get_107")

\* get, lines 107-108: entry = self._store.get(key); if entry is None
GetLookup(t) ==
    LET entry == Lookup(store, loc[t].key)
    IN  /\ Goto(t, "get_107", IF entry = None THEN "get_109" ELSE "get_112",
                [loc[t] EXCEPT !.entry = entry])
        /\ UNCHANGED <<store, hits, misses>>

\* get, lines 109-110: self._misses += 1; return None
GetAbsent(t) ==
    /\ Goto(t, "get_109", "release", [loc[t] EXCEPT !.ret = None])
    /\ misses' = misses + 1
    /\ UNCHANGED <<store, hits>>

\* get, line 112: if entry.is_expired(self._ttl)
GetCheckExpiry(t) ==
    /\ Goto(t, "get_112",
            IF is_expired(loc[t].entry[1], ttl, now)
                THEN "get_113" ELSE "get_118",
            [loc[t] EXCEPT !.readAt = now])
    /\ UNCHANGED <<store, hits, misses>>

\* get, line 113: del self._store[key]
GetDeleteExpired(t) ==
    /\ Goto(t, "get_113", "get_114", loc[t])
    /\ store' = Delete(store, loc[t].key)
    /\ UNCHANGED <<hits, misses>>

\* get, lines 114-115: self._misses += 1; return None
GetExpired(t) ==
    /\ Goto(t, "get_114", "release", [loc[t] EXCEPT !.ret = None])
    /\ misses' = misses + 1
    /\ UNCHANGED <<store, hits>>

\* get, line 118: self._store.move_to_end(key)
GetMoveToEnd(t) ==
    /\ Goto(t, "get_118", "get_119", loc[t])
    /\ store' = move_to_end(store, loc[t].key)
    /\ UNCHANGED <<hits, misses>>

\* get, lines 119-120: self._hits += 1; return entry.value
GetHit(t) ==
    /\ Goto(t, "get_119", "release",
            [loc[t] EXCEPT !.ret = Some(loc[t].entry[1].value)])
    /\ hits' = hits + 1
    /\ UNCHANGED <<store, misses>>

\* put, line 139: with self._lock
PutEnter(t, prompt, mode, response) ==
    Enter(t, "put", KeyOf[<<prompt, mode>>], Some(response), "put_141")

\* put, line 141: if key in self._store
PutCheckPresent(t) ==
    /\ Goto(t, "put_141",
            IF Contains(store, loc[t].key) THEN "put_142" ELSE "put_145",
            loc[t])
    /\ UNCHANGED <<store, hits, misses>>

\* put, line 142: del self._store[key]
PutDeleteOld(t) ==
    /\ Goto(t, "put_142", "put_145", loc[t])
    /\ store' = Delete(store, loc[t].key)
    /\ UNCHANGED <<hits, misses>>

\* put, line 145: while len(self._store) >= self._max_size
PutCheckFull(t) ==
    /\ Goto(t, "put_145",
            IF Len(store) >= max_size THEN "put_146" ELSE "put_148", loc[t])
    /\ UNCHANGED <<store, hits, misses>>

\* put, line 146: self._store.popitem(last=False)
PutPopItem(t) ==
    /\ Goto(t, "put_146", "put_145", loc[t])
    /\ store' = popitem(store)
    /\ UNCHANGED <<hits, misses>>

\* put, line 148: self._store[key] = _CacheEntry(response)
PutInsert(t) ==
    /\ Goto(t, "put_148", "release", [loc[t] EXCEPT !.readAt = now])
    /\ store' = Append(store, CacheEntry(loc[t].key, loc[t].value[1], now))
    /\ UNCHANGED <<hits, misses>>

\* clear, line 156: with self._lock
ClearEnter(t) == Enter(t, "clear", None, None, "clear_157")

\* clear, line 157: self._store.clear()
ClearStore(t) ==
    /\ Goto(t, "clear_157", "clear_158", loc[t])
    /\ store' = <<>>
    /\ UNCHANGED <<hits, misses>>

\* A mutant of ClearHits: the hit counter is left as it was.
ClearHitsKeep(t) ==
    /\ Goto(t, "clear_158", "clear_159", loc[t])
    /\ UNCHANGED <<store, hits, misses>>

\* clear, line 158: self._hits = 0
ClearHits(t) ==
    /\ Goto(t, "clear_158", "clear_159", loc[t])
    /\ hits' = 0
    /\ UNCHANGED <<store, misses>>

\* clear, line 159: self._misses = 0
ClearMisses(t) ==
    /\ Goto(t, "clear_159", "release", loc[t])
    /\ misses' = 0
    /\ UNCHANGED <<store, hits>>

\* stats, line 167: with self._lock
StatsEnter(t) == Enter(t, "stats", None, None, "stats_168")

\* stats, lines 168-169: total = self._hits + self._misses; hit_rate = ...
StatsTotal(t) ==
    /\ Goto(t, "stats_168", "stats_170",
            [loc[t] EXCEPT !.entry = Some(hits + misses)])
    /\ UNCHANGED <<store, hits, misses>>

\* stats, lines 170-177: the dictionary returned
StatsReturn(t) ==
    /\ Goto(t, "stats_170", "release",
            [loc[t] EXCEPT
                !.ret = Some(stats_result(store, max_size, ttl, hits, misses))])
    /\ UNCHANGED <<store, hits, misses>>

\* The end of the with block: the lock is released and the call returns.
Release(t) ==
    /\ pc[t] = "release"
    /\ lock' = IF lock = t THEN Free ELSE lock
    /\ pc' = [pc EXCEPT ![t] = "idle"]
    /\ loc' = [loc EXCEPT ![t] = NoCall]
    /\ UNCHANGED <<store, hits, misses, now, besideThreads>>

\* time.monotonic() advances while threads run.
TickThreads ==
    /\ now < MaxTime
    /\ now' = now + 1
    /\ UNCHANGED <<store, hits, misses, lock, pc, loc, besideThreads>>

\* One cache shared by the threads, for every capacity within the bound.
InitLock ==
    /\ \E cap \in 1..MaxCapacity : InitCache(cap)
    /\ fp = NoFp
    /\ fn = NoFn
    /\ InitObjects
    /\ InitThreads
    /\ InitWorkers

NextLock ==
    \/ \E t \in Threads, i \in LockInputs : GetEnter(t, i[1], i[2])
    \/ \E t \in Threads : GetLookup(t)
    \/ \E t \in Threads : GetAbsent(t)
    \/ \E t \in Threads : GetCheckExpiry(t)
    \/ \E t \in Threads : GetDeleteExpired(t)
    \/ \E t \in Threads : GetExpired(t)
    \/ \E t \in Threads : GetMoveToEnd(t)
    \/ \E t \in Threads : GetHit(t)
    \/ \E t \in Threads, i \in LockInputs, v \in Values :
          PutEnter(t, i[1], i[2], v)
    \/ \E t \in Threads : PutCheckPresent(t)
    \/ \E t \in Threads : PutDeleteOld(t)
    \/ \E t \in Threads : PutCheckFull(t)
    \/ \E t \in Threads : PutPopItem(t)
    \/ \E t \in Threads : PutInsert(t)
    \/ \E t \in Threads : ClearEnter(t)
    \/ \E t \in Threads : ClearStore(t)
    \/ \E t \in Threads : ClearHits(t)
    \/ \E t \in Threads : ClearMisses(t)
    \/ \E t \in Threads : StatsEnter(t)
    \/ \E t \in Threads : StatsTotal(t)
    \/ \E t \in Threads : StatsReturn(t)
    \/ \E t \in Threads : Release(t)
    \/ TickThreads

SpecLock == InitLock /\ [][NextLock]_vars

\* ------------------------------------------------------------ route_prompt
\* The requests the pipeline is driven with: "a" and " A" (one text after
\* normalization) and "b", all under the rule-based mode.
Requests ==
    {<<<<"a">>, "RULE_BASED">>, <<<<" ", "A">>, "RULE_BASED">>,
     <<<<"b">>, "RULE_BASED">>}

\* How a call of the classifier, the router or the Generator can end: with
\* its result, with a ValueError, or with another exception (a timeout and
\* a network failure among them).
Outcomes == {"ok", "ValueError", "Exception"}

\* The texts the Generator can reply with.
Replies == {"g1", "g2"}

\* A mutant of AfterLookup: a cached response is ignored.
AfterLookupIgnoreCache(cached) == "classify"

\* Lines 74-75: if cached is not None: return cached
AfterLookup(cached) == IF cached # None THEN "returned" ELSE "classify"

\* A mutant of AfterCall: a failed call is swallowed.
AfterCallSwallow(outcome, next) == next

\* Where route_prompt goes after a call that can raise: on to the next
\* statement, or through the except clauses of lines 128-133 out of the
\* function.
AfterCall(outcome, next) == IF outcome = "ok" THEN next ELSE "raised"

\* Lines 128-133: the HTTPException an exception is turned into.
HTTPException(outcome) ==
    [status_code |-> IF outcome = "ValueError" THEN 400 ELSE 500]

\* What route_prompt leaves with after a call that ended with outcome:
\* nothing yet, or the HTTPException.
Raised(outcome) == IF outcome = "ok" THEN None ELSE Some(HTTPException(outcome))

\* Lines 112-118: the RouteResponse assembled from the request's parts.
RouteResponse(prompt, classification, routing, reply) ==
    [prompt |-> prompt, classification |-> classification,
     routing |-> routing, response |-> reply]

\* The request's record of the entries its own step has stored and removed,
\* after a step that takes the store from s to s2 at time t.
Account(r, s, s2, ttlv, t) ==
    [r EXCEPT
        !.added = @ \cup {e.key : e \in {x \in {s2[i] : i \in 1..Len(s2)} :
                              x \notin {s[i] : i \in 1..Len(s)}}},
        !.removed = @ \cup {[key |-> e.key, live |-> ~is_expired(e, ttlv, t)] :
                              e \in {x \in {s[i] : i \in 1..Len(s)} :
                                  x.key \notin KeysOf(s2)}}]

\* What the pipeline's steps leave alone.
besideWorkers == <<fp, fn, heap, asPut, got, lock, pc, loc>>

\* The requests in flight that have not looked the cache up yet.
Pending == {w \in Workers : ppc[w] = "get"}

\* route_prompt is called with a request.
Receive(w, prompt, mode) ==
    /\ ppc[w] = "idle"
    /\ hits + misses + Cardinality(Pending) < MaxLookups
    /\ ppc' = [ppc EXCEPT ![w] = "get"]
    /\ req' = [req EXCEPT ![w] =
                 [NoRequest EXCEPT !.prompt = prompt, !.mode = mode]]
    /\ UNCHANGED <<cacheVars, logged, besideWorkers>>

\* Lines 73-75: cached = _cache.get(request.prompt, request.classifier_mode);
\* if cached is not None: return cached
LookUp(w) ==
    /\ ppc[w] = "get"
    /\ cache_get(req[w].prompt, req[w].mode)
    /\ ppc' = [ppc EXCEPT ![w] = AfterLookup(lastOp'.ret)]
    /\ req' = [req EXCEPT ![w] =
                 Account([req[w] EXCEPT
                            !.cached = lastOp'.ret,
                            !.result = IF AfterLookup(lastOp'.ret) = "returned"
                                         THEN lastOp'.ret ELSE None],
                         store, store', ttl, now)]
    /\ UNCHANGED <<logged, besideWorkers>>

\* Lines 78-81: classification = ...classify(request.prompt)
Classify(w, outcome) ==
    /\ ppc[w] = "classify"
    /\ ppc' = [ppc EXCEPT ![w] = AfterCall(outcome, "route")]
    /\ req' = [req EXCEPT
                 ![w].calls.classify = @ + 1,
                 ![w].classification =
                     IF outcome = "ok"
                         THEN Some([classifier_mode |-> req[w].mode]) ELSE None,
                 ![w].result = Raised(outcome),
                 ![w].failure = IF outcome = "ok" THEN None ELSE Some(outcome)]
    /\ UNCHANGED <<cacheVars, logged, besideWorkers>>

\* Line 84: routing = route(classification)
Route(w, outcome) ==
    /\ ppc[w] = "route"
    /\ ppc' = [ppc EXCEPT ![w] = AfterCall(outcome, "generate")]
    /\ req' = [req EXCEPT
                 ![w].calls.route = @ + 1,
                 ![w].routing =
                     IF outcome = "ok" THEN Some("routing") ELSE None,
                 ![w].result = Raised(outcome),
                 ![w].failure = IF outcome = "ok" THEN None ELSE Some(outcome)]
    /\ UNCHANGED <<cacheVars, logged, besideWorkers>>

\* Lines 87-118: provider_response = _provider_manager.generate(...), the
\* cost comparison and the assembled RouteResponse
Generate(w, outcome, reply) ==
    /\ ppc[w] = "generate"
    /\ ppc' = [ppc EXCEPT ![w] = AfterCall(outcome, "put")]
    /\ req' = [req EXCEPT
                 ![w].calls.generate = @ + 1,
                 ![w].reply = IF outcome = "ok" THEN Some(reply) ELSE None,
                 ![w].response =
                     IF outcome = "ok"
                         THEN Some(RouteResponse(req[w].prompt,
                                                 req[w].classification[1],
                                                 req[w].routing[1], reply))
                         ELSE None,
                 ![w].result = Raised(outcome),
                 ![w].failure = IF outcome = "ok" THEN None ELSE Some(outcome)]
    /\ UNCHANGED <<cacheVars, logged, besideWorkers>>

\* Line 121: _cache.put(request.prompt, request.classifier_mode, response)
Store(w) ==
    /\ ppc[w] = "put"
    /\ cache_put(req[w].prompt, req[w].mode, req[w].response[1])
    /\ ppc' = [ppc EXCEPT ![w] = "log"]
    /\ req' = [req EXCEPT ![w] =
                 Account([req[w] EXCEPT !.calls.put = @ + 1],
                         store, store', ttl, now)]
    /\ UNCHANGED <<logged, besideWorkers>>

\* Lines 124-126: _logger.log(response); return response
Log(w) ==
    /\ ppc[w] = "log"
    /\ ppc' = [ppc EXCEPT ![w] = "returned"]
    /\ logged' = logged + 1
    /\ req' = [req EXCEPT ![w].result = req[w].response]
    /\ UNCHANGED <<cacheVars, besideWorkers>>

\* The worker is free for its next request.
Finish(w) ==
    /\ ppc[w] \in {"returned", "raised"}
    /\ ppc' = [ppc EXCEPT ![w] = "idle"]
    /\ req' = [req EXCEPT ![w] = NoRequest]
    /\ UNCHANGED <<cacheVars, logged, besideWorkers>>

\* time.monotonic() advances while requests are served.
TickPipeline ==
    /\ now < MaxTime
    /\ now' = now + 1
    /\ UNCHANGED <<max_size, ttl, store, hits, misses, lastOp, useOrder,
                   putTime, scen, gets, ppc, req, logged, besideWorkers>>

\* _cache = ResponseCache(), for every capacity within the bound; no
\* request has arrived.
InitPipeline ==
    /\ \E cap \in 1..MaxCapacity : InitCache(cap)
    /\ fp = NoFp
    /\ fn = NoFn
    /\ InitObjects
    /\ InitThreads
    /\ InitWorkers

NextPipeline ==
    \/ \E w \in Workers, i \in Requests : Receive(w, i[1], i[2])
    \/ \E w \in Workers : LookUp(w)
    \/ \E w \in Workers, o \in Outcomes : Classify(w, o)
    \/ \E w \in Workers, o \in Outcomes : Route(w, o)
    \/ \E w \in Workers, o \in Outcomes, g \in Replies : Generate(w, o, g)
    \/ \E w \in Workers : Store(w)
    \/ \E w \in Workers : Log(w)
    \/ \E w \in Workers : Finish(w)
    \/ TickPipeline

SpecPipeline == InitPipeline /\ [][NextPipeline]_vars

\* ------------------------------------------------------------------ router
\* TaskType, by member name.
TaskType ==
    {"SIMPLE_QA", "TRANSLATION", "CODE", "ANALYSIS", "CREATIVE", "MATH",
     "REASONING", "GENERAL"}

\* TaskType.value
TaskTypeValue ==
    [SIMPLE_QA |-> "simple_qa", TRANSLATION |-> "translation",
     CODE |-> "code", ANALYSIS |-> "analysis", CREATIVE |-> "creative",
     MATH |-> "math", REASONING |-> "reasoning", GENERAL |-> "general"]

\* ModelName, by member name.
ModelName == {"GPT_4O_MINI", "GPT_4O", "CLAUDE_35_SONNET"}

\* ModelName.value
ModelNameValue ==
    [GPT_4O_MINI |-> "gpt-4o-mini", GPT_4O |-> "gpt-4o",
     CLAUDE_35_SONNET |-> "claude-3.5-sonnet"]

\* What a call returns, and what it raises.
Ok(v) == [ok |-> TRUE, value |-> v]
Raise(e) == [ok |-> FALSE, error |-> e]

\* MODEL_REGISTRY, with costs in millionths of a dollar per 1k tokens.
MODEL_REGISTRY ==
    [GPT_4O_MINI |->
        [name |-> "GPT_4O_MINI", provider |-> "openai",
         cost_per_1k_input_tokens |-> 150, cost_per_1k_output_tokens |-> 600,
         avg_latency_ms |-> 300,
         strengths |-> <<"fast", "cheap", "simple tasks", "translations">>,
         max_context_tokens |-> 128000],
     GPT_4O |->
        [name |-> "GPT_4O", provider |-> "openai",
         cost_per_1k_input_tokens |-> 5000,
         cost_per_1k_output_tokens |-> 15000,
         avg_latency_ms |-> 800,
         strengths |-> <<"top-tier reasoning", "complex math",
                         "advanced code">>,
         max_context_tokens |-> 128000],
     CLAUDE_35_SONNET |->
        [name |-> "CLAUDE_35_SONNET", provider |-> "anthropic",
         cost_per_1k_input_tokens |-> 3000,
         cost_per_1k_output_tokens |-> 15000,
         avg_latency_ms |-> 700,
         strengths |-> <<"nuanced analysis", "long-form writing",
                         "creative writing", "multilingual">>,
         max_context_tokens |-> 200000]]

\* The complexity tiers.
LOW == "low"
MEDIUM == "medium"
HIGH == "high"

\* A mutant of get_tier: the low tier ends one score early.
get_tier_low_ends_early(score) ==
    IF score < 3 THEN LOW ELSE IF score <= 6 THEN MEDIUM ELSE HIGH

\* _get_tier(score)
get_tier(score) ==
    IF score <= 3 THEN LOW ELSE IF score <= 6 THEN MEDIUM ELSE HIGH

\* The rows of the routing table for one tier.
TableRows(tier, targets) ==
    [k \in {<<tier, t>> : t \in DOMAIN targets} |-> targets[k[2]]]

\* A mutant of ROUTING_TABLE: the row (medium, translation) is missing.
ROUTING_TABLE_without_a_row ==
    TableRows(LOW, [t \in TaskType |-> "GPT_4O_MINI"])
    @@ TableRows(MEDIUM,
         [CODE |-> "GPT_4O_MINI", ANALYSIS |-> "CLAUDE_35_SONNET",
          MATH |-> "GPT_4O_MINI", CREATIVE |-> "CLAUDE_35_SONNET",
          SIMPLE_QA |-> "GPT_4O_MINI",
          GENERAL |-> "GPT_4O_MINI", REASONING |-> "CLAUDE_35_SONNET"])
    @@ TableRows(HIGH,
         [REASONING |-> "GPT_4O", MATH |-> "GPT_4O", CODE |-> "GPT_4O",
          ANALYSIS |-> "CLAUDE_35_SONNET", CREATIVE |-> "CLAUDE_35_SONNET",
          GENERAL |-> "CLAUDE_35_SONNET", TRANSLATION |-> "CLAUDE_35_SONNET",
          SIMPLE_QA |-> "GPT_4O"])

\* _ROUTING_TABLE: (tier, task type) to model.
ROUTING_TABLE ==
    TableRows(LOW,
         [SIMPLE_QA |-> "GPT_4O_MINI", TRANSLATION |-> "GPT_4O_MINI",
          GENERAL |-> "GPT_4O_MINI", CREATIVE |-> "GPT_4O_MINI",
          CODE |-> "GPT_4O_MINI", ANALYSIS |-> "GPT_4O_MINI",
          MATH |-> "GPT_4O_MINI", REASONING |-> "GPT_4O_MINI"])
    @@ TableRows(MEDIUM,
         [CODE |-> "GPT_4O_MINI", ANALYSIS |-> "CLAUDE_35_SONNET",
          MATH |-> "GPT_4O_MINI", CREATIVE |-> "CLAUDE_35_SONNET",
          TRANSLATION |-> "CLAUDE_35_SONNET", SIMPLE_QA |-> "GPT_4O_MINI",
          GENERAL |-> "GPT_4O_MINI", REASONING |-> "CLAUDE_35_SONNET"])
    @@ TableRows(HIGH,
         [REASONING |-> "GPT_4O", MATH |-> "GPT_4O", CODE |-> "GPT_4O",
          ANALYSIS |-> "CLAUDE_35_SONNET", CREATIVE |-> "CLAUDE_35_SONNET",
          GENERAL |-> "CLAUDE_35_SONNET", TRANSLATION |-> "CLAUDE_35_SONNET",
          SIMPLE_QA |-> "GPT_4O"])

\* _TIER_DEFAULTS
TIER_DEFAULTS == [low |-> "GPT_4O_MINI", medium |-> "GPT_4O_MINI",
                  high |-> "GPT_4O"]

\* dict.get(key, default)
dict_get(d, key, default) == IF key \in DOMAIN d THEN d[key] ELSE default

\* Whether route finds the (tier, task type) pair in the table, and so does
\* not use the tier's default.
has_row(tier, task_type) == <<tier, task_type>> \in DOMAIN ROUTING_TABLE

\* A mutant of choose_model: the classifier's mode decides too.
choose_model_by_mode(classification, tier) ==
    IF classification.classifier_mode = "LLM_BASED"
        THEN TIER_DEFAULTS[tier]
        ELSE dict_get(ROUTING_TABLE, <<tier, classification.task_type>>,
                      TIER_DEFAULTS[tier])

\* Lines 215-216: chosen_model = _ROUTING_TABLE.get(key, _TIER_DEFAULTS[tier])
choose_model(classification, tier) ==
    dict_get(ROUTING_TABLE, <<tier, classification.task_type>>,
             TIER_DEFAULTS[tier])

\* A mutant of avg_cost: the input cost is left out.
avg_cost_of_output(model_info) ==
    [num |-> 2 * model_info.cost_per_1k_output_tokens, den |-> 2]

\* (input + output cost) / 2, as the pair numerator, denominator.
avg_cost(model_info) ==
    [num |-> model_info.cost_per_1k_input_tokens
               + model_info.cost_per_1k_output_tokens,
     den |-> 2]

\* _build_reasoning_chain: the five steps, each description given by the
\* values its text is formatted from (costs to four decimals, in
\* ten-thousandths of a dollar; the saving as a whole percentage).
build_reasoning_chain(classification, tier, chosen_model, model_info) ==
    LET avg == avg_cost(model_info)
        baseline == MODEL_REGISTRY["GPT_4O"]
        baseline_avg == avg_cost(baseline)
        savings ==
            IF baseline_avg.num > 0
                THEN round_half_even((baseline_avg.num - avg.num) * 100,
                                     baseline_avg.num)
                ELSE 0
        cost_note ==
            IF chosen_model = "GPT_4O"
                THEN <<"premium baseline">>
                ELSE <<"estimated", round_half_even(avg.num, avg.den * 100),
                       "vs", round_half_even(baseline_avg.num,
                                             baseline_avg.den * 100),
                       "reduction", savings>>
    IN  <<[step |-> 1,
           description |->
              <<"classified", TaskTypeValue[classification.task_type],
                classification.complexity_score, classification.confidence,
                ModeValue(classification.classifier_mode)>>],
          [step |-> 2,
           description |->
              <<"falls in", classification.complexity_score, tier,
                [low |-> "1-3", medium |-> "4-6", high |-> "7-10"][tier]>>],
          [step |-> 3,
           description |->
              <<"routing", tier, TaskTypeValue[classification.task_type],
                ModelNameValue[chosen_model], model_info.provider,
                model_info.strengths>>],
          [step |-> 4, description |-> cost_note],
          [step |-> 5,
           description |->
              <<"latency", model_info.avg_latency_ms,
                baseline.avg_latency_ms>>]>>

\* route(classification): the RoutingDecision returned, or the KeyError of
\* a model that is not in the registry.
route(classification) ==
    LET tier == get_tier(classification.complexity_score)
        chosen_model == choose_model(classification, tier)
    IN  IF chosen_model \notin DOMAIN MODEL_REGISTRY
            THEN Raise("KeyError")
            ELSE LET model_info == MODEL_REGISTRY[chosen_model]
                 IN  Ok([model |-> chosen_model,
                         provider |-> model_info.provider,
                         reasoning_chain |->
                             build_reasoning_chain(classification, tier,
                                                   chosen_model, model_info),
                         estimated_cost_per_1k_tokens |->
                             round_half_even(avg_cost(model_info).num,
                                             avg_cost(model_info).den),
                         estimated_latency_ms |->
                             model_info.avg_latency_ms])

\* The valid ClassificationResult values route is called with: every score
\* and task type under both modes, the confidence in hundredths.
Classifications ==
    [complexity_score : 1..10, task_type : TaskType, reasoning : {"because"},
     confidence : {100}, classifier_mode : {"RULE_BASED"}]
    \cup
    [complexity_score : 1..10, task_type : TaskType, reasoning : {"because"},
     confidence : {50, 100}, classifier_mode : {"LLM_BASED"}]

\* Two classifications, not routed yet.
InitRoute ==
    /\ InitCache(1)
    /\ fp = NoFp
    /\ InitObjects
    /\ InitThreads
    /\ InitWorkers
    /\ \E c1 \in Classifications, c2 \in Classifications :
          fn = [NoFn EXCEPT !.name = "route", !.arg1 = Some(c1),
                            !.arg2 = Some(c2)]

\* route on each of the two classifications.
RouteCalls ==
    /\ fn.name = "route"
    /\ fn.out1 = None
    /\ fn' = [fn EXCEPT !.out1 = Some(route(fn.arg1[1])),
                        !.out2 = Some(route(fn.arg2[1]))]
    /\ UNCHANGED <<cacheVars, fp, heap, asPut, got, lock, pc, loc, ppc, req,
                   logged>>

NextRoute == RouteCalls

SpecRoute == InitRoute /\ [][NextRoute]_vars

\* ------------------------------------------------------------- providers
\* _MODEL_ID_MAP of openai_provider.py and of anthropic_provider.py
OPENAI_MODEL_ID_MAP == [GPT_4O_MINI |-> "gpt-4o-mini", GPT_4O |-> "gpt-4o"]
ANTHROPIC_MODEL_ID_MAP == [CLAUDE_35_SONNET |-> "claude-sonnet-4-5-20250929"]

\* A mutant of providers: the Anthropic provider is not registered.
providers_openai_only ==
    <<[name |-> "openai", model_id_map |-> OPENAI_MODEL_ID_MAP]>>

\* ProviderManager._providers: OpenAIProvider(), AnthropicProvider(), each
\* with the ProviderName it puts in its responses.
providers ==
    <<[name |-> "openai", model_id_map |-> OPENAI_MODEL_ID_MAP],
      [name |-> "anthropic", model_id_map |-> ANTHROPIC_MODEL_ID_MAP]>>

\* supports_model(model)
supports_model(provider, model) == model \in DOMAIN provider.model_id_map

\* BaseProvider._calculate_cost, rates in millionths of a dollar per 1k
\* tokens: round(input_cost + output_cost, 6), in millionths of a dollar.
calculate_cost(input_tokens, output_tokens, cost_per_1k_input, cost_per_1k_output) ==
    round_half_even(input_tokens * cost_per_1k_input
                    + output_tokens * cost_per_1k_output, 1000)

\* What the provider's API call comes to: the usage it reports, or an error
\* of the client library.
ApiReplied(input_tokens, output_tokens) ==
    [input_tokens |-> input_tokens, output_tokens |-> output_tokens]
ApiFailed == [api_error |-> "APIConnectionError"]

\* OpenAIProvider.generate / AnthropicProvider.generate, given what the API
\* call comes to.
provider_generate(provider, model, api) ==
    IF ~supports_model(provider, model)
        THEN Raise("ValueError: does not support model")
    ELSE IF "api_error" \in DOMAIN api THEN Raise(api.api_error)
    ELSE LET model_info == MODEL_REGISTRY[model]
         IN  Ok([model |-> model, provider |-> provider.name,
                 tokens_used |-> api.input_tokens + api.output_tokens,
                 simulated_cost |->
                     calculate_cost(api.input_tokens, api.output_tokens,
                                    model_info.cost_per_1k_input_tokens,
                                    model_info.cost_per_1k_output_tokens)])

\* ProviderManager.generate: the first provider that supports the model
\* generates; with none, ValueError.
manager_generate(model, api) ==
    LET supporting == {i \in 1..Len(providers) :
                          supports_model(providers[i], model)}
    IN  IF supporting = {}
            THEN Raise("ValueError: No provider found")
            ELSE LET first == CHOOSE i \in supporting :
                                 \A j \in supporting : i <= j
                 IN  provider_generate(providers[first], model, api)

\* get_baseline_model()
get_baseline_model == MODEL_REGISTRY["GPT_4O"]

\* CostComparison(...), costs in millionths of a dollar and the saving in
\* hundredths of a percent: the validated model, or pydantic's
\* ValidationError.
CostComparison(chosen_model, chosen_cost, baseline_model, baseline_cost, savings_percent) ==
    IF /\ chosen_model \in ModelName
       /\ chosen_cost >= 0
       /\ baseline_cost >= 0
       /\ 0 <= savings_percent /\ savings_percent <= 10000
        THEN Ok([chosen_model |-> chosen_model, chosen_cost |-> chosen_cost,
                 baseline_model |-> baseline_model,
                 baseline_cost |-> baseline_cost,
                 savings_percent |-> savings_percent])
        ELSE Raise("ValidationError")

\* The greatest common divisor of two positive numbers.
RECURSIVE gcd(_, _)
gcd(a, b) == IF b = 0 THEN a ELSE gcd(b, a % b)

\* The baseline's cost per token in millionths of a dollar, as a fraction in
\* lowest terms: (input rate + output rate) / 2, per 1000 tokens.
baseline_per_token ==
    LET avg == avg_cost(get_baseline_model)
        g == gcd(avg.num, avg.den * 1000)
    IN  [num |-> avg.num \div g, den |-> (avg.den * 1000) \div g]

\* Step 5 of route_prompt: the cost comparison against the baseline. The
\* baseline cost is tokens_used times the baseline's cost per token; baseline
\* and chosen are the two costs over the common denominator rate.den.
cost_comparison(model, provider_response) ==
    LET rate == baseline_per_token
        baseline == provider_response.tokens_used * rate.num
        chosen == provider_response.simulated_cost * rate.den
        savings_pct ==
            IF baseline > 0 /\ chosen < baseline
                THEN round_half_even((baseline - chosen) * 10000, baseline)
                ELSE 0
    IN  CostComparison(model, provider_response.simulated_cost, "GPT_4O",
                       round_half_even(baseline, rate.den), savings_pct)

\* Steps 4 and 5 of route_prompt for a routed model: the provider's
\* response and, when there is one, the cost comparison made from it.
generate_and_compare(model, api) ==
    LET provider_response == manager_generate(model, api)
    IN  [provider_response |-> provider_response,
         cost_comparison |->
             IF provider_response.ok
                 THEN Some(cost_comparison(model, provider_response.value))
                 ELSE None]

\* The token counts a provider's API reports.
TokenCounts == {0, 1, 3, 500, 1000}

\* What the provider's API call can come to.
ApiOutcomes ==
    {ApiReplied(i, o) : i \in TokenCounts, o \in TokenCounts}
    \cup {ApiFailed}

\* A classification, not routed yet.
InitGenerate ==
    /\ InitCache(1)
    /\ fp = NoFp
    /\ InitObjects
    /\ InitThreads
    /\ InitWorkers
    /\ \E c \in Classifications :
          fn = [NoFn EXCEPT !.name = "generate", !.arg1 = Some(c)]

\* Step 3 of route_prompt: routing = route(classification)
RouteOne ==
    /\ fn.name = "generate"
    /\ fn.out1 = None
    /\ fn' = [fn EXCEPT !.out1 = Some(route(fn.arg1[1]))]
    /\ UNCHANGED <<cacheVars, fp, heap, asPut, got, lock, pc, loc, ppc, req,
                   logged>>

\* Steps 4 and 5 of route_prompt: _provider_manager.generate(request.prompt,
\* routing.model) and the cost comparison.
GenerateOne ==
    /\ fn.name = "generate"
    /\ fn.out1 # None
    /\ fn.out1[1].ok
    /\ fn.out2 = None
    /\ \E api \in ApiOutcomes :
          fn' = [fn EXCEPT !.arg2 = Some(api),
                           !.out2 = Some(generate_and_compare(
                                             fn.out1[1].value.model, api))]
    /\ UNCHANGED <<cacheVars, fp, heap, asPut, got, lock, pc, loc, ppc, req,
                   logged>>

NextGenerate == RouteOne \/ GenerateOne

SpecGenerate == InitGenerate /\ [][NextGenerate]_vars

\* --------------------------------------------------- rule-based classifier
\* The phrases prompts are put together from, each with its number of
\* characters and of words; "lorem" stands for a passage of a hundred
\* five-letter words that no pattern matches.
Lexicon ==
    [what |-> [chars |-> 4, words |-> 1],
     simple |-> [chars |-> 6, words |-> 1],
     yes_or_no |-> [chars |-> 9, words |-> 3],
     quantum |-> [chars |-> 7, words |-> 1],
     detailed |-> [chars |-> 8, words |-> 1],
     advanced |-> [chars |-> 8, words |-> 1],
     distributed |-> [chars |-> 11, words |-> 1],
     several |-> [chars |-> 7, words |-> 1],
     python |-> [chars |-> 6, words |-> 1],
     calculate |-> [chars |-> 9, words |-> 1],
     statistics |-> [chars |-> 10, words |-> 1],
     compare |-> [chars |-> 7, words |-> 1],
     bug |-> [chars |-> 3, words |-> 1],
     translate_to_french |-> [chars |-> 19, words |-> 3],
     in_french |-> [chars |-> 9, words |-> 2],
     poetic |-> [chars |-> 6, words |-> 1],
     once_upon_a_time |-> [chars |-> 16, words |-> 4],
     paradox |-> [chars |-> 7, words |-> 1],
     impact |-> [chars |-> 6, words |-> 1],
     define |-> [chars |-> 6, words |-> 1],
     lorem |-> [chars |-> 599, words |-> 100]]

\* The order in which a prompt lists its phrases.
PhraseOrder ==
    <<"what", "simple", "yes_or_no", "quantum", "detailed", "advanced",
      "distributed", "several", "python", "calculate", "statistics",
      "compare">>

\* The phrases of PhraseOrder from position i on that are in the set chosen,
\* in order.
RECURSIVE Listed(_, _)
Listed(chosen, i) ==
    IF i > Len(PhraseOrder) THEN <<>>
    ELSE (IF PhraseOrder[i] \in chosen THEN <<PhraseOrder[i]>> ELSE <<>>)
         \o Listed(chosen, i + 1)

\* The prompts: any choice of phrases separated by single spaces, followed
\* by up to two passages; the empty prompt among them.
Prompts ==
    {Listed(chosen, 1) \o passages :
        chosen \in SUBSET {PhraseOrder[i] : i \in 1..Len(PhraseOrder)},
        passages \in {<<>>, <<"lorem">>, <<"lorem", "lorem">>}}

\* len(prompt.split())
RECURSIVE word_count(_)
word_count(prompt) ==
    IF prompt = <<>> THEN 0
    ELSE Lexicon[Head(prompt)].words + word_count(Tail(prompt))

\* len(prompt)
RECURSIVE char_count(_)
char_count(prompt) ==
    IF prompt = <<>> THEN 0
    ELSE Lexicon[Head(prompt)].chars
         + (IF Tail(prompt) = <<>> THEN 0 ELSE 1 + char_count(Tail(prompt)))

\* max(a, b) and min(a, b)
max(a, b) == IF a >= b THEN a ELSE b
min(a, b) == IF a <= b THEN a ELSE b

\* A mutant of estimate_token_count: no minimum of one token.
estimate_token_count_from_zero(prompt) ==
    (3 * word_count(prompt) + char_count(prompt)) \div 8

\* _estimate_token_count: max(int((word_count * 0.75 + char_count / 4) / 2), 1)
estimate_token_count(prompt) ==
    max((3 * word_count(prompt) + char_count(prompt)) \div 8, 1)

\* A compiled pattern, by the phrases of the lexicon it matches: anywhere in
\* the text, only at its start, or any text of 1 to upto characters.
Pattern(anywhere, first, upto) ==
    [anywhere |-> anywhere, first |-> first, upto |-> upto]

\* A pattern that matches the given phrases wherever they stand.
Words(anywhere) == Pattern(anywhere, {}, 0)

\* pattern.search(text)
search(pattern, prompt) ==
    \/ \E i \in 1..Len(prompt) : prompt[i] \in pattern.anywhere
    \/ prompt # <<>> /\ prompt[1] \in pattern.first
    \/ pattern.upto > 0 /\ 1 <= char_count(prompt)
                        /\ char_count(prompt) <= pattern.upto

\* The pattern banks of lines 18-60.
CODE_PATTERNS ==
    <<Words({}), Words({"python"}), Words({}), Words({"bug"}), Words({})>>
MATH_PATTERNS ==
    <<Words({"calculate"}), Words({"statistics"}), Words({}), Words({})>>
CREATIVE_PATTERNS ==
    <<Words({}), Words({"poetic"}), Words({"once_upon_a_time"})>>
ANALYSIS_PATTERNS == <<Words({"compare"}), Words({"impact"}), Words({})>>
TRANSLATION_PATTERNS ==
    <<Words({"translate_to_french"}), Words({"in_french"})>>
REASONING_PATTERNS ==
    <<Words({"paradox"}), Words({}), Words({"quantum"}), Words({})>>
SIMPLE_QA_PATTERNS == <<Pattern({}, {"what"}, 0), Words({"define"})>>

\* _COMPLEXITY_BOOSTERS
COMPLEXITY_BOOSTERS ==
    <<[pattern |-> Words({"detailed"}), delta |-> 2,
       reason |-> "requests detailed/thorough treatment"],
      [pattern |-> Words({"compare"}), delta |-> 1,
       reason |-> "involves comparison/trade-off analysis"],
      [pattern |-> Words({}), delta |-> 1, reason |-> "asks for explanation"],
      [pattern |-> Words({"several"}), delta |-> 1,
       reason |-> "references multiple items"],
      [pattern |-> Words({"advanced"}), delta |-> 2,
       reason |-> "explicitly mentions high difficulty"],
      [pattern |-> Words({}), delta |-> 1,
       reason |-> "mentions robustness concerns"],
      [pattern |-> Words({"distributed"}), delta |-> 2,
       reason |-> "involves architecture/design"]>>

\* _COMPLEXITY_REDUCERS
COMPLEXITY_REDUCERS ==
    <<[pattern |-> Words({"simple"}), delta |-> 1,
       reason |-> "explicitly simple/basic"],
      [pattern |-> Words({"yes_or_no"}), delta |-> 2,
       reason |-> "binary question"],
      [pattern |-> Pattern({}, {}, 30), delta |-> 1,
       reason |-> "very short prompt"]>>

\* _count_matches(patterns, text)
count_matches(patterns, prompt) ==
    Cardinality({i \in 1..Len(patterns) : search(patterns[i], prompt)})

\* The checks of _detect_task_type, in their order.
TaskChecks ==
    <<[patterns |-> CODE_PATTERNS, task_type |-> "CODE",
       reason |-> "code-related keywords detected"],
      [patterns |-> MATH_PATTERNS, task_type |-> "MATH",
       reason |-> "math/calculation keywords detected"],
      [patterns |-> TRANSLATION_PATTERNS, task_type |-> "TRANSLATION",
       reason |-> "translation request detected"],
      [patterns |-> CREATIVE_PATTERNS, task_type |-> "CREATIVE",
       reason |-> "creative writing keywords detected"],
      [patterns |-> REASONING_PATTERNS, task_type |-> "REASONING",
       reason |-> "complex reasoning keywords detected"],
      [patterns |-> ANALYSIS_PATTERNS, task_type |-> "ANALYSIS",
       reason |-> "analytical keywords detected"],
      [patterns |-> SIMPLE_QA_PATTERNS, task_type |-> "SIMPLE_QA",
       reason |-> "simple question pattern detected"]>>

\* A mutant of detect_from: a check with as many hits as the best so far
\* takes its place.
RECURSIVE detect_from_last_wins(_, _, _)
detect_from_last_wins(prompt, i, best) ==
    IF i > Len(TaskChecks) THEN best
    ELSE LET n == count_matches(TaskChecks[i].patterns, prompt)
         IN  detect_from_last_wins(prompt, i + 1,
                 IF n >= best.hits /\ n > 0
                     THEN [type |-> TaskChecks[i].task_type,
                           reason |-> TaskChecks[i].reason, hits |-> n]
                     ELSE best)

\* The loop of _detect_task_type from check i on, with the best so far.
RECURSIVE detect_from(_, _, _)
detect_from(prompt, i, best) ==
    IF i > Len(TaskChecks) THEN best
    ELSE LET n == count_matches(TaskChecks[i].patterns, prompt)
         IN  detect_from(prompt, i + 1,
                 IF n > best.hits
                     THEN [type |-> TaskChecks[i].task_type,
                           reason |-> TaskChecks[i].reason, hits |-> n]
                     ELSE best)

\* _detect_task_type(prompt)
detect_task_type(prompt) ==
    detect_from(prompt, 1,
        [type |-> "GENERAL",
         reason |-> "no strong keyword signals; classified as general",
         hits |-> 0])

\* base_scores of _compute_base_complexity
base_scores ==
    [SIMPLE_QA |-> 2, TRANSLATION |-> 3, GENERAL |-> 3, CREATIVE |-> 5,
     CODE |-> 5, ANALYSIS |-> 5, MATH |-> 6, REASONING |-> 7]

\* _compute_base_complexity(task_type, token_count)
compute_base_complexity(task_type, token_count) ==
    LET base == dict_get(base_scores, task_type, 3)
        first == <<"base score", base, TaskTypeValue[task_type]>>
    IN  IF token_count > 200
            THEN [score |-> base + 2,
                  reasons |-> <<first, <<"long prompt", token_count, 2>>>>]
        ELSE IF token_count > 80
            THEN [score |-> base + 1,
                  reasons |-> <<first,
                                <<"medium-length prompt", token_count, 1>>>>]
        ELSE [score |-> base,
              reasons |-> <<first, <<"short prompt", token_count, 0>>>>]

\* One loop of _apply_adjustments over signals from position i on; sign is
\* 1 for the boosters and -1 for the reducers.
RECURSIVE adjust_from(_, _, _, _, _)
adjust_from(prompt, signals, sign, i, acc) ==
    IF i > Len(signals) THEN acc
    ELSE adjust_from(prompt, signals, sign, i + 1,
             IF search(signals[i].pattern, prompt)
                 THEN [score |-> acc.score + sign * signals[i].delta,
                       reasons |-> Append(acc.reasons,
                                      <<sign * signals[i].delta,
                                        signals[i].reason>>)]
                 ELSE acc)

\* A mutant of apply_adjustments: the reducers are applied before the
\* boosters.
apply_adjustments_reducers_first(prompt, score, reasons) ==
    adjust_from(prompt, COMPLEXITY_BOOSTERS, 1, 1,
        adjust_from(prompt, COMPLEXITY_REDUCERS, 0 - 1, 1,
            [score |-> score, reasons |-> reasons]))

\* _apply_adjustments(prompt, score, reasons)
apply_adjustments(prompt, score, reasons) ==
    adjust_from(prompt, COMPLEXITY_REDUCERS, 0 - 1, 1,
        adjust_from(prompt, COMPLEXITY_BOOSTERS, 1, 1,
            [score |-> score, reasons |-> reasons]))

\* _clamp(value, lo, hi)
clamp(value, lo, hi) == max(lo, min(hi, value))

\* ClassificationResult(...), confidence in hundredths: the validated model,
\* or pydantic's ValidationError.
ClassificationResult(score, task_type, reasoning, confidence, mode) ==
    IF /\ 1 <= score /\ score <= 10
       /\ task_type \in TaskType
       /\ Len(reasoning) >= 1
       /\ 0 <= confidence /\ confidence <= 100
        THEN Ok([complexity_score |-> score, task_type |-> task_type,
                 reasoning |-> reasoning, confidence |-> confidence,
                 classifier_mode |-> mode])
        ELSE Raise([type |-> "ValidationError", raw |-> None])

\* Steps 1 to 4 of rule_based.classify(prompt): the task type, and the score
\* and the reasons before the score is clamped.
rule_based_raw(prompt) ==
    LET token_count == estimate_token_count(prompt)
        detected == detect_task_type(prompt)
        base == compute_base_complexity(detected.type, token_count)
        adjusted == apply_adjustments(prompt, base.score,
                                      <<detected.reason>> \o base.reasons)
    IN  [task_type |-> detected.type, score |-> adjusted.score,
         reasons |-> adjusted.reasons]

\* rule_based.classify(prompt); the reasoning is the list of fragments that
\* the code joins with " | ".
rule_based_classify(prompt) ==
    LET adjusted == rule_based_raw(prompt)
        final_score == clamp(adjusted.score, 1, 10)
        reasons == IF final_score # adjusted.score
                       THEN Append(adjusted.reasons,
                                   <<"clamped", adjusted.score, final_score>>)
                       ELSE adjusted.reasons
    IN  ClassificationResult(final_score, adjusted.task_type, reasons, 100,
                             "RULE_BASED")

\* ------------------------------------------------- task detection by itself
\* The order in which a prompt of the detection check lists its phrases: the
\* phrases that a pattern of some bank matches, up to two for a bank.
DetectOrder ==
    <<"what", "define", "python", "bug", "calculate", "statistics",
      "translate_to_french", "in_french", "poetic", "once_upon_a_time",
      "quantum", "paradox", "compare", "impact">>

\* The phrases of DetectOrder from position i on that are in the set chosen,
\* in order.
RECURSIVE DetectListed(_, _)
DetectListed(chosen, i) ==
    IF i > Len(DetectOrder) THEN <<>>
    ELSE (IF DetectOrder[i] \in chosen THEN <<DetectOrder[i]>> ELSE <<>>)
         \o DetectListed(chosen, i + 1)

\* The prompts of the detection check: any choice of the phrases.
DetectPrompts ==
    {DetectListed(chosen, 1) :
        chosen \in SUBSET {DetectOrder[i] : i \in 1..Len(DetectOrder)}}

\* A prompt, not yet looked at.
InitDetect ==
    /\ InitCache(1)
    /\ fp = NoFp
    /\ InitObjects
    /\ InitThreads
    /\ InitWorkers
    /\ \E prompt \in DetectPrompts :
          fn = [NoFn EXCEPT !.name = "detect", !.arg1 = Some(prompt)]

\* _detect_task_type(prompt)
DetectTaskType ==
    /\ fn.name = "detect"
    /\ fn.out1 = None
    /\ fn' = [fn EXCEPT !.out1 = Some(detect_task_type(fn.arg1[1]))]
    /\ UNCHANGED <<cacheVars, fp, heap, asPut, got, lock, pc, loc, ppc, req,
                   logged>>

NextDetect == DetectTaskType

SpecDetect == InitDetect /\ [][NextDetect]_vars

\* ------------------------------------------------ the score before clamping
\* A prompt, not yet scored.
InitScore ==
    /\ InitCache(1)
    /\ fp = NoFp
    /\ InitObjects
    /\ InitThreads
    /\ InitWorkers
    /\ \E prompt \in Prompts :
          fn = [NoFn EXCEPT !.name = "score", !.arg1 = Some(prompt)]

\* rule_based.classify(prompt) up to the call of _clamp
ScoreRaw ==
    /\ fn.name = "score"
    /\ fn.out1 = None
    /\ fn' = [fn EXCEPT !.out1 = Some(rule_based_raw(fn.arg1[1]))]
    /\ UNCHANGED <<cacheVars, fp, heap, asPut, got, lock, pc, loc, ppc, req,
                   logged>>

NextScore == ScoreRaw

SpecScore == InitScore /\ [][NextScore]_vars

\* ---------------------------------------------------- LLM-based classifier
\* TaskType.value, as a string of characters.
TaskTypeChars ==
    [SIMPLE_QA |-> <<"s", "i", "m", "p", "l", "e", "_", "q", "a">>,
     TRANSLATION |-> <<"t", "r", "a", "n", "s", "l", "a", "t", "i", "o", "n">>,
     CODE |-> <<"c", "o", "d", "e">>,
     ANALYSIS |-> <<"a", "n", "a", "l", "y", "s", "i", "s">>,
     CREATIVE |-> <<"c", "r", "e", "a", "t", "i", "v", "e">>,
     MATH |-> <<"m", "a", "t", "h">>,
     REASONING |-> <<"r", "e", "a", "s", "o", "n", "i", "n", "g">>,
     GENERAL |-> <<"g", "e", "n", "e", "r", "a", "l">>]

\* _VALID_TASK_TYPES
VALID_TASK_TYPES == {TaskTypeChars[t] : t \in TaskType}

\* TaskType(value): the member with the given value.
TaskTypeOf(value) == CHOOSE t \in TaskType : TaskTypeChars[t] = value

\* JSON values: integers, floats (in thousandths), the float infinity that
\* a number beyond the range of a float such as 1e400 is read as, strings
\* (of characters), null, arrays, and objects (each field absent or present
\* with a value).
JInt(n) == [int |-> n]
JFloat(thousandths) == [float |-> thousandths]
JInfinity == [infinity |-> TRUE]
JStr(chars) == [str |-> chars]
JNull == [null |-> TRUE]
JArray == [array |-> TRUE]
JObject(fields) == [object |-> fields]

\* isinstance(x, type) for a JSON value.
IsA(x, type) == type \in DOMAIN x

\* An exception of the given class; raw is the reply it quotes, if any.
Error(class, raw) == [type |-> class, raw |-> raw]

\* The decimal digits and their values.
DigitChars == <<"0", "1", "2", "3", "4", "5", "6", "7", "8", "9">>
DigitValue(c) == (CHOOSE i \in 1..Len(DigitChars) : DigitChars[i] = c) - 1
IsDigits(s) ==
    s # <<>> /\ \A i \in 1..Len(s) : \E d \in 1..Len(DigitChars) :
                    DigitChars[d] = s[i]

\* The number a string of digits writes.
RECURSIVE digits_value(_)
digits_value(s) ==
    IF s = <<>> THEN 0
    ELSE digits_value(SubSeq(s, 1, Len(s) - 1)) * 10 + DigitValue(s[Len(s)])

\* A numeric literal without its sign, and the sign as 1 or -1.
Unsigned(s) == IF s # <<>> /\ s[1] \in {"-", "+"} THEN Tail(s) ELSE s
SignOf(s) == IF s # <<>> /\ s[1] = "-" THEN 0 - 1 ELSE 1

\* int(s) for a string s: surrounding whitespace and a sign are accepted,
\* anything but digits is a ValueError.
int_of_str(chars) ==
    LET s == strip(chars)
    IN  IF IsDigits(Unsigned(s))
            THEN Ok(SignOf(s) * digits_value(Unsigned(s)))
            ELSE Raise(Error("ValueError", None))

\* float(s) for a string s with at most three decimals, in thousandths:
\* digits, or digits around one decimal point; anything else is a
\* ValueError.
float_of_str(chars) ==
    LET s == strip(chars)
        body == Unsigned(s)
        dots == {i \in 1..Len(body) : body[i] = "."}
        d == CHOOSE i \in dots : TRUE
        whole == SubSeq(body, 1, d - 1)
        frac == SubSeq(body, d + 1, Len(body))
        tens == <<100, 10, 1>>
    IN  IF dots = {}
            THEN IF IsDigits(body)
                     THEN Ok(SignOf(s) * digits_value(body) * 1000)
                     ELSE Raise(Error("ValueError", None))
        ELSE IF /\ Cardinality(dots) = 1
                /\ whole = <<>> \/ IsDigits(whole)
                /\ frac = <<>> \/ IsDigits(frac)
                /\ whole # <<>> \/ frac # <<>>
                /\ Len(frac) <= 3
            THEN Ok(SignOf(s)
                    * (digits_value(whole) * 1000
                       + (IF frac = <<>> THEN 0
                          ELSE digits_value(frac) * tens[Len(frac)])))
            ELSE Raise(Error("ValueError", None))

\* int(x) for a JSON value x: a float is truncated towards zero, infinity
\* is an OverflowError, a string is parsed, null and an array are a
\* TypeError.
py_int(x) ==
    CASE IsA(x, "int") -> Ok(x.int)
      [] IsA(x, "float") ->
            Ok(IF x.float >= 0 THEN x.float \div 1000
               ELSE 0 - ((0 - x.float) \div 1000))
      [] IsA(x, "infinity") -> Raise(Error("OverflowError", None))
      [] IsA(x, "str") -> int_of_str(x.str)
      [] IsA(x, "null") \/ IsA(x, "array") -> Raise(Error("TypeError", None))

\* float(x) for a JSON value x other than infinity, in thousandths.
py_float(x) ==
    CASE IsA(x, "int") -> Ok(x.int * 1000)
      [] IsA(x, "float") -> Ok(x.float)
      [] IsA(x, "str") -> float_of_str(x.str)
      [] IsA(x, "null") \/ IsA(x, "array") -> Raise(Error("TypeError", None))

\* str(x) for a JSON string or null.
py_str(x) ==
    CASE IsA(x, "str") -> x.str
      [] IsA(x, "null") -> <<"N", "o", "n", "e">>

\* data.get(name, default) on a JSON object.
json_get(data, name, default) ==
    IF data.object[name] = None THEN default ELSE data.object[name][1]

\* json.loads(text): the value a reply that is JSON writes, or a
\* JSONDecodeError.
json_loads(reply) ==
    IF reply.kind = "json" THEN Ok(reply.value)
    ELSE Raise(Error("JSONDecodeError", None))

\* Line 159: score = max(1, min(10, score))
clamp_score(score) == max(1, min(10, score))

\* _parse_llm_response(raw_text): the validated dict, or what it raises;
\* the confidence is returned in hundredths.
parse_llm_response(reply) ==
    LET loaded == json_loads(reply)
        data == loaded.value
        score == py_int(json_get(data, "complexity_score", JInt(5)))
        raw_type == strip(lower(py_str(
                        json_get(data, "task_type",
                                 JStr(TaskTypeChars["GENERAL"])))))
        confidence == py_float(json_get(data, "confidence", JFloat(800)))
        reasoning == py_str(json_get(data, "reasoning",
                                     JStr(<<"LLM classification">>)))
    IN  IF ~loaded.ok
            THEN Raise(Error("ValueError", Some(reply)))
        ELSE IF ~IsA(data, "object")
            THEN Raise(Error("AttributeError", None))
        ELSE IF ~score.ok THEN score
        ELSE IF ~confidence.ok THEN confidence
        ELSE Ok([complexity_score |-> clamp_score(score.value),
                 task_type |-> IF raw_type \in VALID_TASK_TYPES
                                   THEN raw_type
                                   ELSE TaskTypeChars["GENERAL"],
                 reasoning |->
                     IF strip(reasoning) = <<>>
                         THEN <<"LLM classification (no reasoning provided)">>
                         ELSE reasoning,
                 confidence |->
                     round_half_even(max(0, min(1000, confidence.value)),
                                     10)])

\* Lines 80-83 and 113-116: raise ValueError("..._API_KEY not set ...")
missing_key_error == Error("ValueError", None)

\* _classify_with_anthropic / _classify_with_openai: the parsed reply, or
\* what the missing key, the client library or the parsing raises.
classify_with_provider(reply) ==
    IF reply.kind = "missing_key" THEN Raise(missing_key_error)
    ELSE IF reply.kind = "network"
        THEN Raise(Error("APIConnectionError", None))
    ELSE IF reply.kind = "invalid_key"
        THEN Raise(Error("AuthenticationError", None))
    ELSE parse_llm_response(reply)

\* llm_based.classify(prompt), given what the provider call meets.
llm_classify(reply) ==
    LET data == classify_with_provider(reply)
    IN  IF ~data.ok THEN data
        ELSE ClassificationResult(data.value.complexity_score,
                                  TaskTypeOf(data.value.task_type),
                                  data.value.reasoning,
                                  data.value.confidence, "LLM_BASED")

\* What the provider call can meet: no API key, no connection, a rejected
\* key, a reply that is not JSON, a reply that is JSON.
Unavailable ==
    {[kind |-> k] : k \in {"missing_key", "network", "invalid_key"}}
NotJson ==
    {[kind |-> "text", text |-> t] : t \in {"Sorry, I cannot", "{"}}

\* The values a reply's fields are drawn from, None for an absent field.
ScoreFields ==
    {None, Some(JInt(0)), Some(JInt(5)), Some(JInt(15)),
     Some(JFloat(7900)), Some(JInfinity), Some(JStr(<<"7">>)), Some(JStr(<<" ", "-", "3">>)),
     Some(JStr(<<"h", "i">>)), Some(JNull)}
ConfidenceFields ==
    {None, Some(JFloat(567)), Some(JFloat(1500)), Some(JFloat(0 - 200)),
     Some(JInt(1)), Some(JStr(<<"0", ".", "9">>)),
     Some(JStr(<<"h", "i">>)), Some(JNull)}
TaskTypeFields ==
    {None, Some(JStr(TaskTypeChars["CODE"])),
     Some(JStr(<<" ", "C", "O", "D", "E", " ">>)),
     Some(JStr(<<"p", "o", "e", "m">>)), Some(JNull)}
ReasoningFields == {None, Some(JStr(<<"o", "k">>)), Some(JStr(<<" ">>))}

\* The replies that are JSON: an array, and the objects.
JsonReplies ==
    {[kind |-> "json", value |-> JArray]}
    \cup
    {[kind |-> "json", value |-> JObject(fields)] :
        fields \in [complexity_score : ScoreFields,
                    task_type : TaskTypeFields,
                    confidence : ConfidenceFields,
                    reasoning : ReasoningFields]}

Replies_LLM == Unavailable \cup NotJson \cup JsonReplies

\* A prompt for the rule-based classifier, or what the provider call meets
\* for the LLM-based one together with a reply that is not JSON.
InitClassify ==
    /\ InitCache(1)
    /\ fp = NoFp
    /\ InitObjects
    /\ InitThreads
    /\ InitWorkers
    /\ \/ \E prompt \in Prompts :
            fn = [NoFn EXCEPT !.name = "rule_based", !.arg1 = Some(prompt)]
       \/ \E r1 \in Replies_LLM, r2 \in NotJson :
            fn = [NoFn EXCEPT !.name = "llm_based", !.arg1 = Some(r1),
                              !.arg2 = Some(r2)]

\* rule_based.classify(prompt)
ClassifyRuleBased ==
    /\ fn.name = "rule_based"
    /\ fn.out1 = None
    /\ fn' = [fn EXCEPT !.out1 = Some(rule_based_classify(fn.arg1[1]))]
    /\ UNCHANGED <<cacheVars, fp, heap, asPut, got, lock, pc, loc, ppc, req,
                   logged>>

\* llm_based.classify(prompt), twice
ClassifyLlmBased ==
    /\ fn.name = "llm_based"
    /\ fn.out1 = None
    /\ fn' = [fn EXCEPT !.out1 = Some(llm_classify(fn.arg1[1])),
                        !.out2 = Some(llm_classify(fn.arg2[1]))]
    /\ UNCHANGED <<cacheVars, fp, heap, asPut, got, lock, pc, loc, ppc, req,
                   logged>>

NextClassify == ClassifyRuleBased \/ ClassifyLlmBased

SpecClassify == InitClassify /\ [][NextClassify]_vars

\* ------------------------------------------------------------------ claims
\* A step that is a call of the cache (the clock stands still in it);
\* lastOp' describes the call.
IsCall == now' = now

\* The entries of a store, as a set.
EntriesOf(s) == {s[i] : i \in 1..Len(s)}

\* The age, at the current time, of the stored entry of key since the put
\* that created or replaced it.
AgeOf(key) == now - putTime[key]

\* C1: with capacity c >= 1, after any sequence of get, put, clear and stats
\* the number of stored entries never exceeds c.
C1_SizeWithinCapacity == max_size >= 1 => Len(store) <= max_size

\* C1 witness: a put into a full cache has left it exactly full.
C1_Witness ==
    /\ lastOp.op = "put"
    /\ lastOp.victims # {}
    /\ Len(store) = max_size

\* C2: a put of a new key into a cache holding exactly capacity entries
\* evicts exactly one entry, the one whose last successful get or put is the
\* oldest, and every other entry remains as it was.
C2_EvictsExactlyLeastRecentlyUsed ==
    [][(/\ IsCall
        /\ lastOp'.op = "put"
        /\ ~Contains(store, lastOp'.key)
        /\ Len(store) = max_size)
       => LET lru == useOrder[1]
          IN  /\ KeysOf(store') = (KeysOf(store) \ {lru}) \cup {lastOp'.key}
              /\ Len(store') = Len(store)
              /\ \A e \in EntriesOf(store) :
                    e.key # lru => e \in EntriesOf(store')]_vars

\* C2 witness: a put evicted one entry of a cache of capacity two or more
\* whose entries were not in insertion order (a get had refreshed one).
C2_Witness ==
    /\ lastOp.op = "put"
    /\ Cardinality(lastOp.victims) = 1
    /\ max_size >= 2
    /\ Len(store) = max_size
    /\ store[1].created_at < now
    /\ \A k \in lastOp.victims : k # lastOp.key

\* C3: a get that hits k makes k most recently used, so with capacity >= 2
\* a put of another key right after it never evicts k; with capacity 2,
\* put(A), put(B), get(A), put(C) leaves A and C stored and B evicted.
C3_HitProtectsFromNextPut ==
    /\ [][(/\ IsCall
           /\ lastOp.op = "get"
           /\ lastOp.ret # None
           /\ max_size >= 2
           /\ lastOp'.op = "put"
           /\ lastOp'.key # lastOp.key)
          => /\ Contains(store', lastOp.key)
             /\ lastOp.key \notin lastOp'.victims]_vars
    /\ [](scen = 4 /\ max_size = 2 => KeysOf(store) = {ScenA, ScenC})

\* C3 witness: the scenario has run to its end on a cache of capacity 2.
C3_Witness == scen = 4 /\ max_size = 2 /\ lastOp.victims = {ScenB}

\* C4: a get on a key whose entry is older than the TTL returns nothing,
\* counts one miss and no hit, and removes the entry, so that the size
\* stats() reports no longer counts it.
C4_ExpiredIsMissAndRemoved ==
    [][(/\ IsCall
        /\ lastOp'.op = "get"
        /\ Contains(store, lastOp'.key)
        /\ AgeOf(lastOp'.key) > ttl)
       => /\ lastOp'.ret = None
          /\ misses' = misses + 1
          /\ hits' = hits
          /\ ~Contains(store', lastOp'.key)
          /\ stats_result(store', max_size', ttl', hits', misses').size
                = Len(store) - 1]_vars

\* C4 witness: a get has removed an expired entry and counted a miss.
C4_Witness ==
    /\ lastOp.op = "get"
    /\ lastOp.ret = None
    /\ lastOp.victims = {lastOp.key}
    /\ misses >= 1

\* C5: expiry is measured from the put that created or replaced the entry
\* and no get extends it: a get of a stored key hits exactly when the age
\* since that put is at most the TTL.
C5_NoSlidingExpiry ==
    [][(/\ IsCall
        /\ lastOp'.op = "get"
        /\ Contains(store, lastOp'.key))
       => (lastOp'.ret # None <=> AgeOf(lastOp'.key) <= ttl)]_vars

\* C5 witness: a second hit on an entry whose age equals the TTL.
C5_Witness ==
    /\ lastOp.op = "get"
    /\ lastOp.ret # None
    /\ AgeOf(lastOp.key) = ttl
    /\ hits >= 2

\* C6: with no TTL elapsed in between, put(text, strategy, v) followed by
\* get(text, strategy) returns v, adds one hit and no miss.
C6_PutThenGetRoundTrip ==
    [][(/\ IsCall
        /\ lastOp.op = "put"
        /\ lastOp'.op = "get"
        /\ lastOp'.key = lastOp.key
        /\ AgeOf(lastOp.key) <= ttl)
       => /\ lastOp'.ret = lastOp.arg
          /\ hits' = hits + 1
          /\ misses' = misses]_vars

\* C6 witness: a get has just returned a value that replaced another one
\* under the same key.
C6_Witness ==
    /\ lastOp.op = "get"
    /\ lastOp.ret = Some("v2")
    /\ hits = 1
    /\ misses = 1

\* The statements of put after its first and before its last change of the
\* store: an old entry or a victim may be gone, the new entry is not in yet.
PutMidway == {"put_145", "put_146", "put_148"}

\* The statements that read the store or the counters for a get or a stats.
ReadStatements == {"get_107", "get_112", "stats_168", "stats_170"}

\* Thread t's call, about to return, has had the effect and the result of
\* the whole operation applied at once to the state it started from.
AsIfAtOnce(t) ==
    LET l == loc[t]
        snap == l.snap[1]
        g == get_result(snap.store, snap.hits, snap.misses, ttl, l.key,
                        l.readAt)
    IN  CASE l.op = "get" ->
                /\ store = g.store
                /\ hits = g.hits
                /\ misses = g.misses
                /\ l.ret = g.ret
          [] l.op = "put" ->
                /\ store = put_store(snap.store, max_size, l.key, l.value[1],
                                     l.readAt)
                /\ hits = snap.hits
                /\ misses = snap.misses
          [] l.op = "clear" ->
                store = <<>> /\ hits = 0 /\ misses = 0
          [] l.op = "stats" ->
                /\ store = snap.store
                /\ hits = snap.hits
                /\ misses = snap.misses
                /\ l.ret = Some(stats_result(snap.store, max_size, ttl,
                                             snap.hits, snap.misses))

\* C7: under any interleaving of the threads, no two calls' statements
\* interleave, no get or stats reads the state while a put is half done, and
\* every call returns as if it had run at once.
C7_CallsAreSerialized ==
    /\ \A t \in Threads, u \in Threads :
          t # u => (pc[t] = "idle" \/ pc[u] = "idle")
    /\ \A t \in Threads, u \in Threads :
          (t # u /\ pc[u] \in PutMidway) => pc[t] \notin ReadStatements
    /\ \A t \in Threads : pc[t] = "release" => AsIfAtOnce(t)

\* C7 witness: a put has evicted its victim and not yet inserted its entry,
\* after lookups by the threads.
C7_Witness ==
    \E t \in Threads :
        /\ pc[t] = "put_148"
        /\ Len(store) < Len(loc[t].snap[1].store)
        /\ hits >= 1
        /\ misses >= 1

\* The statements of clear after the lock is taken.
ClearStatements == {"clear_157", "clear_158", "clear_159"}

\* C11: a clear that is about to return has left no entry and both counters
\* at zero, whatever it started from; while it is between its statements no
\* other thread is inside a call of the cache, so nobody sees the store
\* emptied with the counters not yet reset; no step changes the capacity or
\* the TTL.
C11_ClearEmptiesAndResets ==
    /\ [](\A t \in Threads :
            (pc[t] = "release" /\ loc[t].op = "clear")
            => (store = <<>> /\ hits = 0 /\ misses = 0))
    /\ [](\A t \in Threads, u \in Threads :
            (t # u /\ pc[t] \in ClearStatements) => pc[u] = "idle")
    /\ [][max_size' = max_size /\ ttl' = ttl]_vars

\* C11 witness: a clear is about to return that started with an entry
\* stored, a hit and a miss counted.
C11_Witness ==
    \E t \in Threads :
        /\ pc[t] = "release"
        /\ loc[t].op = "clear"
        /\ loc[t].snap[1].store # <<>>
        /\ loc[t].snap[1].hits >= 1
        /\ loc[t].snap[1].misses >= 1
        /\ store = <<>>

\* C12 as stated: stats reports the size, the capacity, the TTL, the hits
\* and the misses, and a hit rate that is exactly 100 * hits / (hits +
\* misses), 0 when there has been no lookup.
C12_HitRateIsExactQuotient ==
    lastOp.op = "stats" =>
        LET r == lastOp.ret[1]
        IN  /\ r.size = Len(store)
            /\ r.max_size = max_size
            /\ r.ttl_seconds = ttl
            /\ r.hits = hits
            /\ r.misses = misses
            /\ hits + misses = 0 => r.hit_rate_percent = 0
            /\ hits + misses > 0 =>
                  r.hit_rate_percent * (hits + misses) = 100 * 100 * hits

\* C12, amended: stats reports the size, the capacity, the TTL, the hits
\* and the misses, and a hit rate that is 100 * hits / (hits + misses)
\* rounded to the nearest hundredth of a percent, 0 when there has been no
\* lookup.
C12_HitRateIsRoundedQuotient ==
    lastOp.op = "stats" =>
        LET r == lastOp.ret[1]
            total == hits + misses
            off == r.hit_rate_percent * total - 100 * 100 * hits
        IN  /\ r.size = Len(store)
            /\ r.max_size = max_size
            /\ r.ttl_seconds = ttl
            /\ r.hits = hits
            /\ r.misses = misses
            /\ total = 0 => r.hit_rate_percent = 0
            /\ total > 0 => (2 * off <= total /\ 0 - 2 * off <= total)

\* C12 witness: stats is called with one hit and two misses counted and an
\* entry stored, and reports 33.33 percent.
C12_Witness ==
    /\ lastOp.op = "stats"
    /\ hits = 1
    /\ misses = 2
    /\ store # <<>>
    /\ lastOp.ret[1].hit_rate_percent = 3333

\* The key of the request worker w serves.
KeyOfRequest(w) == KeyOf[<<req[w].prompt, req[w].mode>>]

\* Worker w's request has made no call of the classifier, the router, the
\* Generator or the cache's put.
NoDownstreamWork(r) ==
    r.calls = [classify |-> 0, route |-> 0, generate |-> 0, put |-> 0]

\* C8 as stated: a request whose classification, routing or Generator call
\* failed leaves route_prompt with an error, has made no put, and has left
\* the set of cached entries as it was.
C8_FailedRequestLeavesEntriesAsTheyWere ==
    \A w \in Workers :
        req[w].failure # None =>
            /\ ppc[w] = "raised"
            /\ req[w].result = Some(HTTPException(req[w].failure[1]))
            /\ req[w].calls.put = 0
            /\ req[w].added = {}
            /\ req[w].removed = {}

\* C8, amended: a request whose classification, routing or Generator call
\* failed leaves route_prompt with an error and has made no put: it has
\* stored or replaced no entry, and the only entry it can have removed is
\* its own key's, found expired by its lookup.
C8_FailedRequestPutsNothing ==
    \A w \in Workers :
        req[w].failure # None =>
            /\ ppc[w] = "raised"
            /\ req[w].result = Some(HTTPException(req[w].failure[1]))
            /\ req[w].calls.put = 0
            /\ req[w].added = {}
            /\ req[w].removed \subseteq
                  {[key |-> KeyOfRequest(w), live |-> FALSE]}

\* C8 witness: the Generator call of a request has failed after the
\* request's lookup removed its expired entry.
C8_Witness ==
    \E w \in Workers :
        /\ ppc[w] = "raised"
        /\ req[w].failure # None
        /\ req[w].calls.generate = 1
        /\ req[w].removed # {}
        /\ ~Contains(store, KeyOfRequest(w))

\* C9: a request whose key is stored and not expired when it looks the cache
\* up returns the stored response and calls neither the classifier, the
\* router nor the Generator; the response stored is the one a request that
\* ran the whole pipeline put there.
C9_RepeatedRequestServedFromCache ==
    /\ [][\A w \in Workers :
            (/\ ppc[w] = "get"
             /\ ppc'[w] # "get"
             /\ Contains(store, KeyOfRequest(w))
             /\ AgeOf(KeyOfRequest(w)) <= ttl)
            => /\ ppc'[w] = "returned"
               /\ req'[w].result
                    = Some(Lookup(store, KeyOfRequest(w))[1].value)
               /\ NoDownstreamWork(req'[w])]_vars
    /\ [][\A w \in Workers :
            (ppc[w] = "put" /\ ppc'[w] # "put")
            => /\ Contains(store', KeyOfRequest(w))
               /\ Some(Lookup(store', KeyOfRequest(w))[1].value)
                    = req[w].response]_vars
    /\ [](\A w \in Workers :
            (ppc[w] = "returned" /\ req[w].cached # None)
            => /\ NoDownstreamWork(req[w])
               /\ req[w].result = req[w].cached)

\* C9 witness: a request has been answered from the cache with the response
\* stored for another spelling of its text.
C9_Witness ==
    \E w \in Workers :
        /\ ppc[w] = "returned"
        /\ req[w].cached # None
        /\ NoDownstreamWork(req[w])
        /\ req[w].result[1].prompt # req[w].prompt

\* The two calls under observation, each with its argument and its outcome.
FnCalls ==
    {[arg |-> fn.arg1[1], out |-> fn.out1[1]],
     [arg |-> fn.arg2[1], out |-> fn.out2[1]]}

\* The two route calls have been made.
Routed == fn.name = "route" /\ fn.out1 # None

\* C13: the routing table has a row for each of the 3 x 8 pairs of a tier
\* and a task type; for every score in 1..10 and every task type, route
\* finds the pair in the table (so the tier's default is not used), returns
\* a decision and does not raise, and the decision's model is the table's
\* and is in the registry.
C13_RouteIsTotal ==
    /\ DOMAIN ROUTING_TABLE = {LOW, MEDIUM, HIGH} \X TaskType
    /\ Cardinality(DOMAIN ROUTING_TABLE) = 24
    /\ Routed =>
         \A c \in FnCalls :
            LET tier == get_tier(c.arg.complexity_score)
            IN  /\ has_row(tier, c.arg.task_type)
                /\ c.out.ok
                /\ c.out.value.model
                     = ROUTING_TABLE[<<tier, c.arg.task_type>>]
                /\ c.out.value.model \in DOMAIN MODEL_REGISTRY
                /\ c.out.value.provider
                     = MODEL_REGISTRY[c.out.value.model].provider

\* C13 witness: a medium-complexity translation has been routed to the
\* model of its table row, which is not the medium tier's default.
C13_Witness ==
    /\ Routed
    /\ fn.arg1[1].complexity_score = 5
    /\ fn.arg1[1].task_type = "TRANSLATION"
    /\ fn.out1[1].ok
    /\ fn.out1[1].value.model = "CLAUDE_35_SONNET"
    /\ fn.out1[1].value.model # TIER_DEFAULTS[MEDIUM]

\* C14: two route calls with equal classifications return equal decisions,
\* and two calls whose classifications agree on the tier and the task type
\* choose the same model, with the same provider, cost and latency.
C14_RouteIsDeterministic ==
    Routed =>
        LET c1 == fn.arg1[1]
            c2 == fn.arg2[1]
            d1 == fn.out1[1]
            d2 == fn.out2[1]
        IN  /\ c1 = c2 => d1 = d2
            /\ (/\ get_tier(c1.complexity_score) = get_tier(c2.complexity_score)
                /\ c1.task_type = c2.task_type)
               => /\ d1.ok /\ d2.ok
                  /\ d1.value.model = d2.value.model
                  /\ d1.value.provider = d2.value.provider
                  /\ d1.value.estimated_cost_per_1k_tokens
                       = d2.value.estimated_cost_per_1k_tokens
                  /\ d1.value.estimated_latency_ms
                       = d2.value.estimated_latency_ms

\* C14 witness: two classifications of one tier and task type that differ
\* in score, confidence and mode have been routed to the same model, with
\* different reasoning chains.
C14_Witness ==
    /\ Routed
    /\ fn.arg1[1].complexity_score = 4
    /\ fn.arg2[1].complexity_score = 6
    /\ fn.arg1[1].task_type = "TRANSLATION"
    /\ fn.arg2[1].task_type = "TRANSLATION"
    /\ fn.arg1[1].classifier_mode # fn.arg2[1].classifier_mode
    /\ fn.arg1[1].confidence # fn.arg2[1].confidence
    /\ fn.out1[1].value.model = fn.out2[1].value.model
    /\ fn.out1[1].value.reasoning_chain # fn.out2[1].value.reasoning_chain

\* The tier route has put a score in, as its reasoning chain reports it.
TierSeen(decision) == decision.value.reasoning_chain[2].description[3]

\* The order of the tiers.
TierRank == [low |-> 1, medium |-> 2, high |-> 3]

\* C15: for every score s in 1..10 the tier is low iff s <= 3, medium iff
\* 4 <= s <= 6 and high iff s >= 7, and of two scores the larger has the
\* same or a higher tier.
C15_TierRangesAndMonotonic ==
    Routed =>
        /\ \A c \in FnCalls :
              LET s == c.arg.complexity_score
                  tier == TierSeen(c.out)
              IN  /\ tier \in {LOW, MEDIUM, HIGH}
                  /\ tier = LOW <=> (1 <= s /\ s <= 3)
                  /\ tier = MEDIUM <=> (4 <= s /\ s <= 6)
                  /\ tier = HIGH <=> (7 <= s /\ s <= 10)
        /\ fn.arg1[1].complexity_score <= fn.arg2[1].complexity_score
              => TierRank[TierSeen(fn.out1[1])] <= TierRank[TierSeen(fn.out2[1])]

\* C15 witness: the scores 3 and 4, on the two sides of a tier boundary,
\* have been put in the low and the medium tier.
C15_Witness ==
    /\ Routed
    /\ fn.arg1[1].complexity_score = 3
    /\ fn.arg2[1].complexity_score = 4
    /\ TierSeen(fn.out1[1]) = LOW
    /\ TierSeen(fn.out2[1]) = MEDIUM

\* The rule-based classifier has been called, and the LLM-based one.
RuleBasedClassified == fn.name = "rule_based" /\ fn.out1 # None
LlmBasedClassified == fn.name = "llm_based" /\ fn.out1 # None

\* A field of a reply that is missing or a JSON number.
MissingOrNumber(field) ==
    \/ field = None
    \/ IsA(field[1], "int") \/ IsA(field[1], "float")
    \/ IsA(field[1], "infinity")

\* C16: the rule-based classifier returns, for every prompt, a result with
\* a score in 1..10 and a confidence in [0, 1] (here in hundredths); every
\* result of the LLM-based classifier has both in range too, and a reply
\* whose score and confidence are numbers, in range or not, gets a result
\* and no error.
C16_ScoreAndConfidenceInRange ==
    /\ RuleBasedClassified =>
          /\ fn.out1[1].ok
          /\ fn.out1[1].value.complexity_score \in 1..10
          /\ fn.out1[1].value.confidence \in 0..100
    /\ LlmBasedClassified =>
          /\ fn.out1[1].ok =>
                /\ fn.out1[1].value.complexity_score \in 1..10
                /\ fn.out1[1].value.confidence \in 0..100
          /\ (/\ fn.arg1[1].kind = "json"
              /\ IsA(fn.arg1[1].value, "object")
              /\ MissingOrNumber(fn.arg1[1].value.object.complexity_score)
              /\ MissingOrNumber(fn.arg1[1].value.object.confidence))
             => fn.out1[1].ok

\* C17: the rule-based classifier returns a result for every prompt, with
\* confidence exactly 1.0; for the empty prompt the result is 'general'
\* with the short-prompt fragment (about 1 token, +0) and the base score.
C17_RuleBasedNeverFails ==
    RuleBasedClassified =>
        /\ fn.out1[1].ok
        /\ fn.out1[1].value.confidence = 100
        /\ fn.out1[1].value.classifier_mode = "RULE_BASED"
        /\ fn.arg1[1] = <<>> =>
              /\ fn.out1[1].value.task_type = "GENERAL"
              /\ fn.out1[1].value.reasoning[3] = <<"short prompt", 1, 0>>
              /\ fn.out1[1].value.complexity_score = base_scores["GENERAL"]

\* C17 witness: the empty prompt has been classified as 'general'.
C17_Witness ==
    /\ RuleBasedClassified
    /\ fn.arg1[1] = <<>>
    /\ fn.out1[1].ok
    /\ fn.out1[1].value.task_type = "GENERAL"

\* A reply that is a JSON object.
StructurallyParsable(reply) ==
    reply.kind = "json" /\ IsA(reply.value, "object")

\* C18: of the replies received, exactly those that are not a JSON object
\* make the LLM-based classifier fail; whatever the fields of a JSON object
\* are, it gets a result.
C18_OnlyUnparsableRepliesFail ==
    (LlmBasedClassified /\ fn.arg1[1].kind \in {"text", "json"}) =>
        (~fn.out1[1].ok <=> ~StructurallyParsable(fn.arg1[1]))

\* C19: a missing key, a failed connection or a rejected key makes the
\* LLM-based classifier raise an error of another class than the one a
\* reply that is not JSON makes it raise, and that one quotes the reply.
C19_FailureKindsAreDistinct ==
    (LlmBasedClassified /\ fn.arg1[1] \in Unavailable) =>
        /\ ~fn.out1[1].ok
        /\ ~fn.out2[1].ok
        /\ fn.out1[1].error.type # fn.out2[1].error.type
        /\ fn.out2[1].error.raw = Some(fn.arg2[1])

\* C20: what a hit of get returns holds what the object held when it was
\* put under the key, whatever callers have assigned since to the object
\* they passed to put or received from an earlier get.
C20_HitReturnsValueAsPut ==
    got # None => got[1].returned = got[1].stored

\* The entries of a store other than the entry of key, in the store's order.
Others(s, key) == SelectSeq(s, LAMBDA e : e.key # key)

\* C21: a get on key k leaves every entry other than k, and the order of
\* those entries, as they were; it removes no entry but k's, and k's only
\* when it is older than the TTL.
C21_GetNeverEvictsForCapacity ==
    [][(IsCall /\ lastOp'.op = "get")
       => LET k == lastOp'.key
          IN  /\ Others(store', k) = Others(store, k)
              /\ KeysOf(store) \ KeysOf(store') \subseteq {k}
              /\ (Contains(store, k) /\ ~Contains(store', k))
                    => AgeOf(k) > ttl]_vars

\* C21 witness: a get on a full cache of two entries has hit the older one
\* and moved it behind the other, which stays stored.
C21_Witness ==
    /\ lastOp.op = "get"
    /\ lastOp.ret # None
    /\ Len(store) = 2
    /\ Len(store) = max_size
    /\ store[2].key = lastOp.key
    /\ store[2].created_at < store[1].created_at

\* The position of key k in the recency order (0 when it is not in it).
RecencyRank(k) ==
    IF \E i \in 1..Len(useOrder) : useOrder[i] = k
        THEN CHOOSE i \in 1..Len(useOrder) : useOrder[i] = k
        ELSE 0

\* C22, as claimed: an entry a put evicts is one of the entries whose age
\* does not exceed the TTL, and among those the one whose last successful
\* get or put is the oldest.
C22_EvictsLruAmongNonExpired ==
    [][(IsCall /\ lastOp'.op = "put" /\ lastOp'.victims # {})
       => LET fresh == KeysOf(store) \ StaleKeys
          IN  \A v \in lastOp'.victims :
                 /\ v \in fresh
                 /\ \A k \in fresh : RecencyRank(v) <= RecencyRank(k)]_vars

\* C22, amended: an entry a put evicts is, of all the stored entries, those
\* older than the TTL included, the one whose last successful get or put is
\* the oldest, and it is the only one evicted.
C22_EvictsLruOfAllEntries ==
    [][(IsCall /\ lastOp'.op = "put" /\ lastOp'.victims # {})
       => /\ lastOp'.victims = {useOrder[1]}
          /\ KeysOf(store') = (KeysOf(store) \ {useOrder[1]}) \cup {lastOp'.key}]_vars

\* C22 witness: a put has evicted an entry that was older than the TTL while
\* an entry that was not stays stored.
C22_Witness ==
    /\ lastOp.op = "put"
    /\ lastOp.victims # {}
    /\ lastOp.victims \subseteq lastOp.stale
    /\ \E k \in KeysOf(store) : k # lastOp.key /\ k \notin lastOp.stale

\* C23: a put on a key that is stored leaves the key with the new value,
\* created now, at the most recently used position; the size is as before
\* and every other entry stays, in its order, also when the cache was full.
C23_PutOnStoredKeyReplacesOnlyIt ==
    [][(IsCall /\ lastOp'.op = "put" /\ Contains(store, lastOp'.key))
       => LET k == lastOp'.key
          IN  /\ store'[Len(store')] = CacheEntry(k, lastOp'.arg[1], now)
              /\ Len(store') = Len(store)
              /\ Others(store', k) = Others(store, k)
              /\ lastOp'.victims = {}]_vars

\* C23 witness: a put has replaced the entry of a key that was older than
\* the TTL in a cache of two entries that was exactly full.
C23_Witness ==
    /\ lastOp.op = "put"
    /\ lastOp.key \in lastOp.stale
    /\ lastOp.victims = {}
    /\ max_size = 2
    /\ Len(store) = max_size
    /\ store[2].key = lastOp.key
    /\ store[2].created_at = now

\* The categories in the order the claim gives to the banks, and each
\* category's bank.
BankOrder ==
    <<"CODE", "MATH", "TRANSLATION", "CREATIVE", "REASONING", "ANALYSIS",
      "SIMPLE_QA">>
BankOf ==
    [CODE |-> CODE_PATTERNS, MATH |-> MATH_PATTERNS,
     TRANSLATION |-> TRANSLATION_PATTERNS, CREATIVE |-> CREATIVE_PATTERNS,
     REASONING |-> REASONING_PATTERNS, ANALYSIS |-> ANALYSIS_PATTERNS,
     SIMPLE_QA |-> SIMPLE_QA_PATTERNS]

\* The number of patterns of the i-th bank that match the prompt.
BankCount(prompt, i) == count_matches(BankOf[BankOrder[i]], prompt)

\* Task detection has looked at its prompt.
Detected == fn.name = "detect" /\ fn.out1 # None

Triggered(signals, prompt) ==
    {i \in 1..Len(signals) : search(signals[i].pattern, prompt)}

\* The sum of the deltas of the signals at the positions in S, taken in no
\* particular order.
RECURSIVE DeltaSum(_, _)
DeltaSum(signals, S) ==
    IF S = {} THEN 0
    ELSE LET i == CHOOSE i \in S : TRUE
         IN  signals[i].delta + DeltaSum(signals, S \ {i})

\* The fragments of the signals at the positions in S, from position i on,
\* in list order.
RECURSIVE Fragments(_, _, _, _)
Fragments(signals, S, sign, i) ==
    IF i > Len(signals) THEN <<>>
    ELSE (IF i \in S THEN <<<<sign * signals[i].delta, signals[i].reason>>>>
          ELSE <<>>)
         \o Fragments(signals, S, sign, i + 1)

\* What the length of a prompt adds to its base score.
LengthAdjustment(token_count) ==
    IF token_count > 200 THEN 2 ELSE IF token_count > 80 THEN 1 ELSE 0

\* The rule-based classifier has scored its prompt and not yet clamped.
Scored == fn.name = "score" /\ fn.out1 # None

\* C25: the score before clamping is the category's base score plus the
\* length adjustment plus the deltas of the triggered boosters minus the
\* deltas of the triggered reducers, summed in any order; after the three
\* opening fragments the rationale lists the triggered boosters in list
\* order and then the triggered reducers in list order.
C25_ScoreIsSumFragmentsInOrder ==
    Scored =>
        LET prompt == fn.arg1[1]
            raw == fn.out1[1]
            up == Triggered(COMPLEXITY_BOOSTERS, prompt)
            down == Triggered(COMPLEXITY_REDUCERS, prompt)
        IN  /\ raw.score = base_scores[raw.task_type]
                           + LengthAdjustment(estimate_token_count(prompt))
                           + DeltaSum(COMPLEXITY_BOOSTERS, up)
                           - DeltaSum(COMPLEXITY_REDUCERS, down)
            /\ SubSeq(raw.reasons, 4, Len(raw.reasons))
                  = Fragments(COMPLEXITY_BOOSTERS, up, 1, 1)
                    \o Fragments(COMPLEXITY_REDUCERS, down, 0 - 1, 1)

\* C25 witness: a prompt of medium length or more has triggered two boosters
\* or more and a reducer.
C25_Witness ==
    /\ Scored
    /\ estimate_token_count(fn.arg1[1]) > 80
    /\ Cardinality(Triggered(COMPLEXITY_BOOSTERS, fn.arg1[1])) >= 2
    /\ Cardinality(Triggered(COMPLEXITY_REDUCERS, fn.arg1[1])) >= 1

\* The description of step 4 of a decision's reasoning chain.
CostNote(decision) == decision.reasoning_chain[4].description

\* C26: step 4 of every decision says there are no savings exactly when the
\* model is gpt-4o; for another model it gives a percentage of cost
\* reduction that is not zero; score 2 with 'simple-qa' is routed to
\* gpt-4o-mini, the model of the lowest blended rate, with such a percentage.
C26_NoSavingsIffBaseline ==
    Routed =>
        \A c \in FnCalls :
            /\ c.out.ok
            /\ LET d == c.out.value
               IN  /\ CostNote(d) = <<"premium baseline">>
                        <=> d.model = "GPT_4O"
                   /\ d.model # "GPT_4O" =>
                        /\ Len(CostNote(d)) = 6
                        /\ CostNote(d)[5] = "reduction"
                        /\ CostNote(d)[6] > 0
                        /\ CostNote(d)[6] <= 100
                   /\ (c.arg.complexity_score = 2
                       /\ c.arg.task_type = "SIMPLE_QA") =>
                        /\ d.model = "GPT_4O_MINI"
                        /\ \A m \in DOMAIN MODEL_REGISTRY :
                              avg_cost(MODEL_REGISTRY[d.model]).num
                                 <= avg_cost(MODEL_REGISTRY[m]).num
                        /\ CostNote(d)[6] > 0

\* C26 witness: score 2 with 'simple-qa' has been routed with a stated
\* reduction of 96%, and another request to gpt-4o with no savings stated.
C26_Witness ==
    /\ Routed
    /\ fn.arg1[1].complexity_score = 2
    /\ fn.arg1[1].task_type = "SIMPLE_QA"
    /\ CostNote(fn.out1[1].value)[6] = 96
    /\ fn.out2[1].value.model = "GPT_4O"
    /\ CostNote(fn.out2[1].value) = <<"premium baseline">>

\* C27: hits + misses is the number of get calls returned since construction
\* or the last clear; a get adds one to exactly one of the two counters, and
\* put and stats change neither.
C27_CountersCountGets ==
    /\ [](hits + misses = gets)
    /\ [][(IsCall /\ lastOp'.op = "get")
          => \/ hits' = hits + 1 /\ misses' = misses
             \/ hits' = hits /\ misses' = misses + 1]_vars
    /\ [][(IsCall /\ lastOp'.op \in {"put", "stats"})
          => hits' = hits /\ misses' = misses]_vars

\* C27 witness: a put has followed a hit and a miss and left both counted.
C27_Witness ==
    /\ lastOp.op = "put"
    /\ gets = 2
    /\ hits = 1
    /\ misses = 1

\* A classification has been routed; the routed model has been sent to the
\* provider manager.
RoutedOne == fn.name = "generate" /\ fn.out1 # None
Generated == fn.name = "generate" /\ fn.out2 # None

\* C28: the model of every routing decision is supported by exactly one
\* registered provider, whose name is the provider of the decision, and
\* ProviderManager.generate never raises 'No provider found' for it; a
\* response it returns carries the same provider.
C28_RoutedModelHasOneProvider ==
    /\ RoutedOne =>
          /\ fn.out1[1].ok
          /\ LET d == fn.out1[1].value
                 supporting == {i \in 1..Len(providers) :
                                   supports_model(providers[i], d.model)}
             IN  /\ Cardinality(supporting) = 1
                 /\ \A i \in supporting : providers[i].name = d.provider
    /\ Generated =>
          LET r == fn.out2[1].provider_response
          IN  IF r.ok
                  THEN r.value.provider = fn.out1[1].value.provider
                  ELSE r.error = ApiFailed.api_error

\* C28 witness: a request routed to claude-3.5-sonnet has been generated by
\* the Anthropic provider, the second of the registered ones.
C28_Witness ==
    /\ Generated
    /\ fn.out1[1].value.model = "CLAUDE_35_SONNET"
    /\ fn.out2[1].provider_response.ok
    /\ fn.out2[1].provider_response.value.provider = "anthropic"

\* C30: the cost comparison made from a provider's response is a valid one
\* with a saving between 0 and 100 percent, and the saving is 0 whenever the
\* routed model is gpt-4o, the model step 4 of the reasoning chain says
\* brings no savings.
C30_BaselineModelSavesNothing ==
    (Generated /\ fn.out2[1].cost_comparison # None) =>
        LET comparison == fn.out2[1].cost_comparison[1]
        IN  /\ comparison.ok
            /\ comparison.value.savings_percent >= 0
            /\ comparison.value.savings_percent <= 10000
            /\ fn.out1[1].value.model = "GPT_4O" =>
                  /\ CostNote(fn.out1[1].value) = <<"premium baseline">>
                  /\ comparison.value.savings_percent = 0

\* The number of entries of store s under key.
EntriesUnder(s, key) == Cardinality({i \in 1..Len(s) : s[i].key = key})

\* Worker w's request has looked the cache up and found nothing.
Missed(w) == ppc[w] \notin {"idle", "get"} /\ req[w].cached = None

\* C29: a request calls the Generator at most once and only after its own
\* lookup missed; a request that missed goes on to the Generator and to put
\* whatever the other requests do; and when a request puts after another
\* request of the same key that also missed has put, both have called the
\* Generator once, and the cache holds one entry for the key, with the
\* response of the put that ran last.
C29_NoInFlightDeduplication ==
    /\ [](\A w \in Workers :
            /\ req[w].calls.generate <= 1
            /\ (ppc[w] = "generate" \/ req[w].calls.generate = 1)
                  => Missed(w))
    /\ [](\A w \in Workers :
            /\ ppc[w] = "generate" => ENABLED Generate(w, "ok", "g1")
            /\ ppc[w] = "put" => ENABLED Store(w))
    /\ [][\A w \in Workers, u \in Workers :
            (/\ w # u
             /\ ppc[w] = "put"
             /\ ppc'[w] # "put"
             /\ Missed(u)
             /\ req[u].calls.put = 1
             /\ KeyOfRequest(u) = KeyOfRequest(w))
            => /\ req[w].calls.generate = 1
               /\ req[u].calls.generate = 1
               /\ req'[w].calls.put = 1
               /\ EntriesUnder(store', KeyOfRequest(w)) = 1
               /\ Some(Lookup(store', KeyOfRequest(w))[1].value)
                    = req[w].response]_vars

\* C29 witness: two requests of one key, under two spellings, looked up
\* before either stored; each got its own reply from the Generator and each
\* has put; the cache holds the response of the second put.
C29_Witness ==
    \E w \in Workers, u \in Workers :
        /\ w # u
        /\ now = 0
        /\ Missed(w) /\ Missed(u)
        /\ KeyOfRequest(w) = KeyOfRequest(u)
        /\ req[w].prompt # req[u].prompt
        /\ req[w].calls.generate = 1 /\ req[u].calls.generate = 1
        /\ req[w].calls.put = 1 /\ req[u].calls.put = 1
        /\ req[w].reply # req[u].reply
        /\ lastOp.op = "put"
        /\ lastOp.arg = req[w].response
        /\ EntriesUnder(store, KeyOfRequest(w)) = 1
        /\ Lookup(store, KeyOfRequest(w))[1].value = req[w].response[1]

\* Surrounding whitespace removed: what lies between the first and the
\* last character that is not whitespace.
Trimmed(t) ==
    LET solid == {i \in 1..Len(t) : t[i] \notin Whitespace}
    IN  IF solid = {}
            THEN <<>>
            ELSE SubSeq(t, CHOOSE i \in solid : \A j \in solid : i <= j,
                        CHOOSE i \in solid : \A j \in solid : i >= j)

\* Every capital letter replaced by its small letter.
Lowercased(t) == [i \in 1..Len(t) |-> IF t[i] = "A" THEN "a" ELSE t[i]]

\* C10: two (text, strategy) pairs give the same string to hash exactly when
\* the texts are equal after trimming and lowercasing and the strategy tags
\* are equal; the separator never makes two different pairs coincide.
C10_SameRawIffSameNormalizedPair ==
    fp.raw1 # None =>
        (fp.raw1 = fp.raw2
         <=> /\ Lowercased(Trimmed(fp.text1)) = Lowercased(Trimmed(fp.text2))
             /\ fp.mode1 = fp.mode2)

\* C10 witness: two different texts, one of them holding the separator and
\* a strategy tag, have been given the same string to hash.
C10_Witness ==
    /\ fp.raw1 # None
    /\ fp.raw1 = fp.raw2
    /\ fp.text1 # fp.text2
    /\ Len(fp.text1) > Len(ModeValue("RULE_BASED"))

=============================================================================
